---- MODULE Spec2Model ----
(***************************************************************************)
(* A model of the DiffDelta TypeScript client (src/src/client.ts), its     *)
(* payload decoders (src/src/models.ts) and its cursor stores              *)
(* (src/unnamed/part_002, lines 1-97): the poll engine, the watch loop     *)
(* and the cursor store, as state machines whose steps are the pieces of   *)
(* code between two suspension points (await) of the async functions.      *)
(***************************************************************************)
EXTENDS Integers, Sequences, FiniteSets, TLC

VARIABLES
    server,           \* the remote service: URL -> the JSON document served there
    cursors,          \* CursorStore.cursors / MemoryCursorStore.cursors: key -> cursor
    file,             \* the cursor file on disk (CursorStore.path)
    durable,          \* TRUE when this.cursors is a CursorStore, FALSE for MemoryCursorStore
    sourceTagsCache,  \* DiffDelta.sourceTagsCache
    calls,            \* the poll()/pollSource() calls in progress: call id -> frame
    fetchedSince,     \* history: key -> a poll fetched the full feed and neither the
                      \*   server's documents for it nor its stored cursor were touched since
    cacheBy,          \* history: the cursor key of the call that populated sourceTagsCache
    watcher,          \* the watch() call: its position, options, interval and abort signal
    owed,             \* history: ids of the items a poll made by watch() fetched and kept
    delivered,        \* history: ids of the items watch() passed to the callback
    storeResult,      \* the last direct call of the cursor store and how it ended
    discovery,        \* the discoverSources() call: its position, argument and result
    decoded,          \* the last call of a payload decoder: its argument and its outcome
    request,          \* the fetchJson() call: its position, its timer and how it ended
    facade            \* the head()/fetchFeed()/sources()/checkHealth() call in progress

vars == <<server, cursors, file, durable, sourceTagsCache, calls, fetchedSince, cacheBy,
          watcher, owed, delivered, storeResult, discovery, decoded, request, facade>>

-----------------------------------------------------------------------------
(* JavaScript values *)

\* A string-valued JSON field that is absent reads as undefined.
undefined == "<undefined>"

\* An optional value that is not a string (a list option, the null cache).
None == [some |-> FALSE]
Some(v) == [some |-> TRUE, v |-> v]

\* `x || d` on a string or undefined: the empty string is falsy.
OrString(x, d) == IF x = undefined \/ x = "" THEN d ELSE x

\* `x || d` on a number or undefined: zero is falsy.
OrNumber(x, d) == IF x.some /\ x.v # 0 THEN x.v ELSE d

\* `x || []` on an optional array (an array, even an empty one, is truthy).
OrList(x) == IF x.some THEN x.v ELSE <<>>

\* `list?.length` as a condition: the option is given and not empty.
HasLength(x) == x.some /\ Len(x.v) > 0

Range(s) == {s[i] : i \in 1..Len(s)}

Last(s) == s[Len(s)]

\* Array.prototype.includes
includes(list, x) == x \in Range(list)

\* Array.prototype.filter
filter(list, Keep(_)) == SelectSeq(list, Keep)

\* Array.prototype.map
map(list, F(_)) == [i \in 1..Len(list) |-> F(list[i])]

-----------------------------------------------------------------------------
(* Payload decoders, src/src/models.ts *)

BucketNames == <<"new", "updated", "removed", "flagged">>

parseFeedItem(data, bucket) ==
    [source |-> OrString(data.source, ""),
     id     |-> OrString(data.id, ""),
     bucket |-> bucket]

\* `ttl_sec || 60`: the time to live the head falls back to.
DefaultTtlSec == 60

parseHead(data) ==
    [cursor |-> OrString(data.cursor, ""),
     ttlSec |-> OrNumber(data.ttl_sec, DefaultTtlSec)]

ParseBucket(list, bucket) ==
    map(list, LAMBDA i : parseFeedItem(i, bucket))

\* Mutant: the flagged items are put in front.
ConcatBucketsFlaggedFirst(newItems, updatedItems, removedItems, flaggedItems) ==
    flaggedItems \o newItems \o updatedItems \o removedItems

ConcatBuckets(newItems, updatedItems, removedItems, flaggedItems) ==
    newItems \o updatedItems \o removedItems \o flaggedItems

parseFeed(data) ==
    LET buckets == IF data.buckets.some THEN data.buckets.v
                   ELSE [new |-> None, updated |-> None, removed |-> None, flagged |-> None]
        newItems     == ParseBucket(OrList(buckets.new), "new")
        updatedItems == ParseBucket(OrList(buckets.updated), "updated")
        removedItems == ParseBucket(OrList(buckets.removed), "removed")
        flaggedItems == ParseBucket(OrList(buckets.flagged), "flagged")
    IN  [cursor |-> OrString(data.cursor, ""),
         items  |-> ConcatBuckets(newItems, updatedItems, removedItems, flaggedItems)]

parseSourceInfo(data) ==
    [sourceId |-> OrString(data.source_id, ""),
     tags     |-> OrList(data.tags)]

-----------------------------------------------------------------------------
(* The decoders on JSON values of any shape, src/src/models.ts lines 194-326 *)

\* A JSON value carries its type; undefined is what reading a missing property
\* gives. An object is a function from its property names to JSON values.
JUndefined == [t |-> "undefined"]
JNull == [t |-> "null"]
JBool(b) == [t |-> "bool", v |-> b]
JNum(n) == [t |-> "num", v |-> n]
JStr(str) == [t |-> "str", v |-> str]
JArr(elements) == [t |-> "arr", v |-> elements]
JObj(properties) == [t |-> "obj", v |-> properties]

\* {}
EmptyObject == JObj([name \in {} |-> JUndefined])

\* The value is {}.
IsEmptyObject(j) == j.t = "obj" /\ DOMAIN j.v = {}

\* undefined or null
Nullish(j) == j.t \in {"undefined", "null"}

\* The truthiness of a value: undefined, null, false, 0 and "" are falsy.
Truthy(j) ==
    CASE Nullish(j)  -> FALSE
      [] j.t = "bool" -> j.v
      [] j.t = "num"  -> j.v # 0
      [] j.t = "str"  -> j.v # ""
      [] OTHER        -> TRUE

\* x || d
Or(j, d) == IF Truthy(j) THEN j ELSE d

\* x ?? d
Coalesce(j, d) == IF Nullish(j) THEN d ELSE j

\* typeof x === "object" && x !== null
IsObject(j) == j.t \in {"obj", "arr"}

\* x.name on a value that is neither undefined nor null (on those it throws).
Get(j, name) == IF j.t = "obj" /\ name \in DOMAIN j.v THEN j.v[name] ELSE JUndefined

\* The outcome of a decoder: a TypeError, or the record returned.
Threw == [threw |-> TRUE]
Returned(value) == [threw |-> FALSE, value |-> value]

\* Mutant: the action is computed from the severity signal.
SuggestedActionFromSeverity(signals) ==
    IF Truthy(Get(signals, "severity")) THEN JStr("PATCH_SOON") ELSE JNull

\* (signals.suggested_action as SuggestedAction) || null
SuggestedActionOf(signals) == Or(Get(signals, "suggested_action"), JNull)

\* parseFeedItem(data, bucket): `data.content` throws on null.
parseFeedItemRaw(data, bucket) ==
    IF Nullish(data) THEN Threw
    ELSE LET content == Get(data, "content")
             excerpt == IF IsObject(content)
                        THEN Or(Or(Get(content, "excerpt_text"), Get(content, "summary")),
                                JStr(""))
                        ELSE IF content.t = "str" THEN content ELSE JStr("")
             signals == Or(Get(data, "signals"), EmptyObject)
             risk == Get(data, "risk")
             fromRisk == IF IsObject(risk) THEN Coalesce(Get(risk, "score"), JNull)
                         ELSE JNull
             riskScore == IF fromRisk.t = "null"
                          THEN Coalesce(Get(data, "risk_score"), JNull)
                          ELSE fromRisk
         IN  Returned([source          |-> Or(Get(data, "source"), JStr("")),
                       id              |-> Or(Get(data, "id"), JStr("")),
                       headline        |-> Or(Get(data, "headline"), JStr("")),
                       url             |-> Or(Get(data, "url"), JStr("")),
                       excerpt         |-> excerpt,
                       publishedAt     |-> Or(Get(data, "published_at"), JNull),
                       updatedAt       |-> Or(Get(data, "updated_at"), JNull),
                       bucket          |-> bucket,
                       signals         |-> signals,
                       suggestedAction |-> SuggestedActionOf(signals),
                       riskScore       |-> riskScore,
                       provenance      |-> Or(Get(data, "provenance"), EmptyObject),
                       raw             |-> data])

\* parseHead(data): `data.counts` throws on null.
parseHeadRaw(data) ==
    IF Nullish(data) THEN Threw
    ELSE LET counts == Or(Get(data, "counts"), EmptyObject)
         IN  Returned([cursor      |-> Or(Get(data, "cursor"), JStr("")),
                       changed     |-> Or(Get(data, "changed"), JBool(FALSE)),
                       generatedAt |-> Or(Get(data, "generated_at"), JStr("")),
                       ttlSec      |-> Or(Get(data, "ttl_sec"), JNum(DefaultTtlSec)),
                       latestUrl   |-> Or(Get(data, "latest_url"), JStr("")),
                       digestUrl   |-> Or(Get(data, "digest_url"), JNull),
                       counts      |-> [new     |-> Or(Get(counts, "new"), JNum(0)),
                                        updated |-> Or(Get(counts, "updated"), JNum(0)),
                                        removed |-> Or(Get(counts, "removed"), JNum(0)),
                                        flagged |-> Or(Get(counts, "flagged"), JNum(0))],
                       sourcesChecked |-> Or(Get(data, "sources_checked"), JNum(0)),
                       sourcesOk   |-> Or(Get(data, "sources_ok"), JNum(0)),
                       allClear    |-> Or(Get(data, "all_clear"), JBool(FALSE)),
                       allClearConfidence |->
                           Coalesce(Get(data, "all_clear_confidence"),
                                    Coalesce(Get(data, "confidence"), JNull)),
                       freshness   |-> Or(Get(data, "freshness"), JNull),
                       raw         |-> data])

\* (buckets.name || []).map(i => parseFeedItem(i, name)): a truthy value that is
\* not an array has no map method, and an element may make parseFeedItem throw.
ParseBucketRaw(buckets, bucket) ==
    LET list == Or(Get(buckets, bucket), JArr(<<>>))
    IN  IF list.t # "arr" THEN Threw
        ELSE LET parsed == map(list.v, LAMBDA i : parseFeedItemRaw(i, bucket))
             IN  IF \E n \in 1..Len(parsed) : parsed[n].threw THEN Threw
                 ELSE Returned(map(parsed, LAMBDA p : p.value))

\* parseFeed(data): `data.buckets` throws on null.
parseFeedRaw(data) ==
    IF Nullish(data) THEN Threw
    ELSE LET buckets == Or(Get(data, "buckets"), EmptyObject)
             newItems     == ParseBucketRaw(buckets, "new")
             updatedItems == ParseBucketRaw(buckets, "updated")
             removedItems == ParseBucketRaw(buckets, "removed")
             flaggedItems == ParseBucketRaw(buckets, "flagged")
         IN  IF newItems.threw \/ updatedItems.threw \/ removedItems.threw
                \/ flaggedItems.threw
             THEN Threw
             ELSE Returned([cursor      |-> Or(Get(data, "cursor"), JStr("")),
                            prevCursor  |-> Or(Get(data, "prev_cursor"), JStr("")),
                            sourceId    |-> Or(Get(data, "source_id"), JStr("")),
                            generatedAt |-> Or(Get(data, "generated_at"), JStr("")),
                            items       |-> ConcatBuckets(newItems.value, updatedItems.value,
                                                          removedItems.value,
                                                          flaggedItems.value),
                            new         |-> newItems.value,
                            updated     |-> updatedItems.value,
                            removed     |-> removedItems.value,
                            flagged     |-> flaggedItems.value,
                            narrative   |-> Or(Get(data, "batch_narrative"), JStr("")),
                            raw         |-> data])

\* parseSourceInfo(data): `data.source_id` throws on null.
parseSourceInfoRaw(data) ==
    IF Nullish(data) THEN Threw
    ELSE Returned([sourceId    |-> Or(Get(data, "source_id"), JStr("")),
                   name        |-> Or(Get(data, "name"), JStr("")),
                   tags        |-> Or(Get(data, "tags"), JArr(<<>>)),
                   description |-> Or(Get(data, "description"), JStr("")),
                   homepage    |-> Or(Get(data, "homepage"), JStr("")),
                   enabled     |-> Coalesce(Get(data, "enabled"), JBool(TRUE)),
                   status      |-> Or(Get(data, "status"), JStr("ok")),
                   headUrl     |-> Or(Get(data, "head_url"), JStr("")),
                   latestUrl   |-> Or(Get(data, "latest_url"), JStr(""))])

\* parseHealthCheck(data): `data.ok` throws on null.
parseHealthCheckRaw(data) ==
    IF Nullish(data) THEN Threw
    ELSE Returned([ok             |-> Or(Get(data, "ok"), JBool(FALSE)),
                   service        |-> Or(Get(data, "service"), JStr("")),
                   time           |-> Or(Get(data, "time"), JStr("")),
                   sourcesChecked |-> Or(Get(data, "sources_checked"), JNum(0)),
                   sourcesOk      |-> Or(Get(data, "sources_ok"), JNum(0)),
                   engineVersion  |-> Or(Get(data, "engine_version"), JStr(""))])

-----------------------------------------------------------------------------
(* The remote service: the documents it can serve *)

baseUrl == "https://diffdelta.io"

SourceIds == {"s1", "s2"}

\* Raw feed items as the service sends them; the last one carries no source.
ItemA == [source |-> "s1", id |-> "a"]
ItemB == [source |-> "s2", id |-> "b"]
ItemC == [source |-> "s3", id |-> "c"]
ItemD == [source |-> "s1", id |-> "d"]
ItemE == [source |-> "s2", id |-> "e"]
ItemF == [source |-> undefined, id |-> "f"]

BucketsFull ==
    Some([new     |-> Some(<<ItemA, ItemB>>),
          updated |-> Some(<<ItemC>>),
          removed |-> Some(<<ItemD>>),
          flagged |-> Some(<<ItemE>>)])

BucketsSparse ==
    Some([new     |-> None,
          updated |-> Some(<<ItemE>>),
          removed |-> Some(<<>>),
          flagged |-> Some(<<ItemF, ItemA>>)])

\* One generation of a feed: the head document and the latest document the
\* service serves together. In the third the head runs ahead of the feed, the
\* fourth carries no cursor at all.
Generations ==
    << [head   |-> [cursor |-> "c1", ttl_sec |-> Some(300)],
        latest |-> [cursor |-> "c1", buckets |-> BucketsFull]],
       [head   |-> [cursor |-> "c2", ttl_sec |-> Some(30)],
        latest |-> [cursor |-> "c2", buckets |-> BucketsSparse]],
       [head   |-> [cursor |-> "c2", ttl_sec |-> None],
        latest |-> [cursor |-> "c1", buckets |-> BucketsFull]],
       [head   |-> [cursor |-> undefined, ttl_sec |-> Some(0)],
        latest |-> [cursor |-> undefined, buckets |-> None]] >>

\* /diff/sources.json; the second document repeats an id and omits a tag list.
SourcesDocs ==
    << [sources |-> << [source_id |-> "s1", tags |-> Some(<<"t1">>)],
                       [source_id |-> "s2", tags |-> Some(<<"t2">>)] >>],
       [sources |-> << [source_id |-> "s1", tags |-> Some(<<"t1", "t2">>)],
                       [source_id |-> "s2", tags |-> None],
                       [source_id |-> "s1", tags |-> Some(<<"t2">>)] >>] >>

\* Dependency names are sequences of characters, so that their letter case can
\* be changed: "ab", "b" and "c", each in two spellings.
NameAb == <<"a", "b">>
NameAbMixed == <<"A", "b">>
NameB == <<"b">>
NameBUpper == <<"B">>
NameC == <<"c">>
NameCUpper == <<"C">>

\* An entry of the stacks document: an array of source ids (legacy shape), an
\* object with or without a sources array (modern shape), or null.
ArrayEntry(ids) == [kind |-> "array", v |-> ids]
ObjectEntry(sources) == [kind |-> "object", sources |-> sources]
NullEntry == [kind |-> "null"]

\* /diff/stacks.json: the modern shape (with a key that is not lowercase), the
\* legacy shape (with a repeated id), both shapes at once, and a document whose
\* entries carry no usable list; and a document with neither map.
StacksDocs ==
    << [dependencies   |-> Some([n \in {NameAb, NameB, NameCUpper} |->
                                    IF n = NameAb THEN ObjectEntry(Some(<<"s1", "s2">>))
                                    ELSE IF n = NameB THEN ObjectEntry(Some(<<"s2", "s3">>))
                                    ELSE ObjectEntry(Some(<<"s9">>))]),
        dependency_map |-> None],
       [dependencies   |-> None,
        dependency_map |-> Some([n \in {NameAb, NameB} |->
                                    IF n = NameAb THEN ArrayEntry(<<"s1", "s2">>)
                                    ELSE ArrayEntry(<<"s2", "s2", "s3">>)])],
       [dependencies   |-> Some([n \in {NameAb} |-> ObjectEntry(Some(<<"s1">>))]),
        dependency_map |-> Some([n \in {NameB} |-> ArrayEntry(<<"s3">>)])],
       [dependencies   |-> Some([n \in {NameAb, NameB, NameC} |->
                                    IF n = NameAb THEN ObjectEntry(None)
                                    ELSE IF n = NameB THEN NullEntry
                                    ELSE ArrayEntry(<<"s3", "s1">>)]),
        dependency_map |-> None],
       [dependencies |-> None, dependency_map |-> None] >>

\* The object with the given properties, those given as undefined left out.
ObjectOf(properties) ==
    JObj([name \in {n \in DOMAIN properties : properties[n].t # "undefined"} |->
             properties[name]])

\* Raw feed items of every shape: complete, empty, with an empty action and a
\* textual content, with a severity and no action, and with signals that are not
\* an object; and elements that are no objects at all.
RawItemFull ==
    JObj([source   |-> JStr("s1"), id |-> JStr("a"), headline |-> JStr("h"),
          content  |-> JObj([excerpt_text |-> JStr("x")]),
          signals  |-> JObj([suggested_action |-> JStr("PATCH_SOON"),
                             severity |-> JObj([level |-> JStr("high")])]),
          risk     |-> JObj([score |-> JNum(7)])])
RawItemEmpty == EmptyObject
RawItemEmptyAction ==
    JObj([id |-> JStr("b"), content |-> JStr("text"),
          signals |-> JObj([suggested_action |-> JStr("")]), risk_score |-> JNum(0)])
RawItemSeverityOnly ==
    JObj([id |-> JStr("c"), signals |-> JObj([severity |-> JObj([level |-> JStr("low")])]),
          risk |-> JObj([score |-> JNull]), risk_score |-> JNum(3)])
RawItemBadSignals == JObj([id |-> JStr("d"), signals |-> JStr("oops"), content |-> JArr(<<>>)])

RawItems ==
    <<RawItemFull, RawItemEmpty, RawItemEmptyAction, RawItemSeverityOnly, RawItemBadSignals,
      JNull, JStr("x")>>

\* What a feed document holds under a bucket name: nothing, arrays of items, an
\* object in place of the array, an array with a null element.
BucketChoices ==
    <<JUndefined, JArr(<<>>), JArr(<<RawItemFull>>),
      JArr(<<RawItemEmptyAction, RawItemSeverityOnly>>), EmptyObject, JArr(<<JNull>>)>>

\* Documents that are no objects, whatever they are decoded as.
OddDocs == <<EmptyObject, JNull, JArr(<<>>), JStr("x")>>

\* Feed documents: every combination of the bucket choices, with and without a
\* cursor; and feeds whose buckets property is no object.
RawFeed(cursor, b1, b2, b3, b4) ==
    ObjectOf([cursor  |-> cursor,
              buckets |-> ObjectOf([new |-> b1, updated |-> b2, removed |-> b3,
                                    flagged |-> b4])])

\* Head documents: the cursor, the time to live and the counts each absent,
\* well-formed, falsy or of the wrong type.
RawHead(cursor, ttl, counts) == ObjectOf([cursor |-> cursor, ttl_sec |-> ttl, counts |-> counts])
RawCursors == <<JUndefined, JStr("c1"), JStr(""), JNum(5)>>
RawTtls == <<JUndefined, JNum(30), JNum(0), JStr("soon")>>
RawCounts == <<JUndefined, JObj([new |-> JNum(2), flagged |-> JNum(0)]), JStr("many"), JNull>>

\* Source and health documents.
RawSources ==
    <<JObj([source_id |-> JStr("s1"), tags |-> JArr(<<JStr("t1")>>), enabled |-> JBool(FALSE)]),
      JObj([source_id |-> JNum(1), tags |-> JStr("t1"), enabled |-> JNull])>>
RawHealths ==
    <<JObj([ok |-> JBool(TRUE), service |-> JStr("diffdelta"), sources_checked |-> JNum(3)]),
      JObj([ok |-> JStr("yes"), sources_ok |-> JNull])>>

-----------------------------------------------------------------------------
(* URLs and cursor keys, src/src/client.ts poll / pollSource / sources *)

GlobalHeadUrl == baseUrl \o "/diff/head.json"
GlobalLatestUrl == baseUrl \o "/diff/latest.json"
SourceHeadUrl(sourceId) == baseUrl \o "/diff/source/" \o sourceId \o "/head.json"
SourceLatestUrl(sourceId) == baseUrl \o "/diff/source/" \o sourceId \o "/latest.json"
SourcesUrl == baseUrl \o "/diff/sources.json"
\* The digest of the global feed, the second layer of the documented protocol.
GlobalDigestUrl == baseUrl \o "/diff/digest.json"
StacksUrl == baseUrl \o "/diff/stacks.json"
HealthUrl == baseUrl \o "/healthz.json"

GlobalKey == "global"
SourceKey(sourceId) == "source:" \o sourceId

\* The feeds the service publishes, each under a head URL and a latest URL.
Feeds == {[headUrl |-> GlobalHeadUrl, key |-> GlobalKey, latestUrl |-> GlobalLatestUrl]}
         \cup {[headUrl |-> SourceHeadUrl(id), key |-> SourceKey(id),
                latestUrl |-> SourceLatestUrl(id)] : id \in SourceIds}

Keys == {f.key : f \in Feeds}

ServerOf(gen, sourcesDoc) ==
    [u \in {f.headUrl : f \in Feeds} \cup {f.latestUrl : f \in Feeds}
            \cup {SourcesUrl, StacksUrl, HealthUrl} |->
        IF u = SourcesUrl THEN sourcesDoc
        ELSE IF u = StacksUrl THEN StacksDocs[1]
        ELSE IF u = HealthUrl THEN RawHealths[1]
        ELSE LET f == CHOOSE g \in Feeds : u \in {g.headUrl, g.latestUrl}
             IN  IF u = f.headUrl THEN Generations[gen[f.key]].head
                 ELSE Generations[gen[f.key]].latest]

-----------------------------------------------------------------------------
(* Cursor stores, src/unnamed/part_002 lines 14-97 *)

\* get(key): this.cursors[key]
get(store, key) == IF key \in DOMAIN store THEN store[key] ELSE undefined

\* Mutant: set() that drops the assignment.
putNothing(store, key, cursor) == store

\* this.cursors[key] = cursor
put(store, key, cursor) ==
    [k \in DOMAIN store \cup {key} |-> IF k = key THEN cursor ELSE store[k]]

\* clear(key): delete this.cursors[key] when a key is given, else this.cursors = {}
clear(store, key) ==
    IF key # undefined /\ key # ""
    THEN [k \in DOMAIN store \ {key} |-> store[k]]
    ELSE [k \in {} |-> ""]

EmptyStore == [k \in {} |-> ""]

\* The cursor file: there is none, or it holds the JSON text of an object, or text
\* that JSON.parse rejects, or it cannot be read at all.
NoFile == [kind |-> "absent"]
CorruptFile == [kind |-> "corrupt"]
UnreadableFile == [kind |-> "unreadable"]

\* JSON.stringify(this.cursors, null, 2): the text of an object of strings.
stringify(store) == [kind |-> "object", data |-> store]

\* Mutant: load() that never reads the file.
loadNothing(disk) == EmptyStore

\* CursorStore.load(): the parsed object when the file exists, can be read and
\* parses; otherwise the store stays empty (no file, or the catch).
load(disk) == IF disk.kind = "object" THEN disk.data ELSE EmptyStore

\* CursorStore.save(): writeFileSync either replaces the file's content or throws,
\* and the exception is swallowed. MemoryCursorStore never touches the disk.
Saved(store) ==
    IF durable THEN file' \in {stringify(store), file} ELSE file' = file

-----------------------------------------------------------------------------
(* The poll engine, src/src/client.ts poll / pollSource / pollFeed / getSourceTags *)

\* `buckets = ["new", "updated"]` in the destructuring of poll() and pollSource():
\* the default applies when the option is undefined.
DefaultBuckets == <<"new", "updated">>

BucketsOrDefault(buckets) == IF buckets.some THEN buckets.v ELSE DefaultBuckets

\* The arguments poll() hands to pollFeed().
PollParams(options) ==
    [buckets   |-> BucketsOrDefault(options.buckets),
     cursorKey |-> GlobalKey,
     headUrl   |-> GlobalHeadUrl,
     latestUrl |-> GlobalLatestUrl,
     sources   |-> options.sources,
     tags      |-> options.tags]

\* The arguments pollSource() hands to pollFeed(): sources is always undefined.
PollSourceParams(sourceId, options) ==
    [buckets   |-> BucketsOrDefault(options.buckets),
     cursorKey |-> SourceKey(sourceId),
     headUrl   |-> SourceHeadUrl(sourceId),
     latestUrl |-> SourceLatestUrl(sourceId),
     sources   |-> None,
     tags      |-> options.tags]

\* Mutant: the comparison of step 2 inverted (`!==`).
CursorUnchangedInverted(storedCursor, head) ==
    storedCursor # undefined /\ storedCursor # "" /\ storedCursor # head.cursor

\* Step 2 of pollFeed: `storedCursor && storedCursor === head.cursor`.
CursorUnchanged(storedCursor, head) ==
    storedCursor # undefined /\ storedCursor # "" /\ storedCursor = head.cursor

\* Mutant: step 4 keeps the first cursor stored under the key.
SaveCursorOnce(store, cursorKey, feed) ==
    IF feed.cursor # "" /\ cursorKey \notin DOMAIN store
    THEN [k \in DOMAIN store \cup {cursorKey} |->
             IF k = cursorKey THEN feed.cursor ELSE store[k]]
    ELSE store

\* Mutant: step 4 stores every cursor under the global key.
SaveCursorGlobalKey(store, cursorKey, feed) ==
    IF feed.cursor # ""
    THEN [k \in DOMAIN store \cup {"global"} |->
             IF k = "global" THEN feed.cursor ELSE store[k]]
    ELSE store

\* Mutant: step 4 without its test, every fetched cursor is stored.
SaveCursorUnguarded(store, cursorKey, feed) == put(store, cursorKey, feed.cursor)

\* Step 4 of pollFeed: `if (feed.cursor) this.cursors.set(cursorKey, feed.cursor)`.
SaveCursor(store, cursorKey, feed) ==
    IF feed.cursor # "" THEN put(store, cursorKey, feed.cursor) ELSE store

\* Mutant: the bucket filter left out.
FilterByBucketSkipped(items, buckets) == items

\* items.filter((i) => buckets.includes(i.bucket))
FilterByBucket(items, buckets) ==
    filter(items, LAMBDA i : includes(buckets, i.bucket))

\* if (sources?.length) items = items.filter((i) => sources.includes(i.source))
FilterBySource(items, sources) ==
    IF HasLength(sources)
    THEN filter(items, LAMBDA i : includes(sources.v, i.source))
    ELSE items

\* tagMap[i.source] || []
ItemTags(tagMap, source) == IF source \in DOMAIN tagMap THEN tagMap[source] ELSE <<>>

\* items.filter((i) => tags.some((t) => (tagMap[i.source] || []).includes(t)))
FilterByTags(items, tags, tagMap) ==
    filter(items, LAMBDA i : \E t \in Range(tags) : includes(ItemTags(tagMap, i.source), t))

\* Object.fromEntries(allSources.map((s) => [s.sourceId, s.tags])): the last entry
\* of an id wins.
TagMapOf(allSources) ==
    [id \in {allSources[n].sourceId : n \in 1..Len(allSources)} |->
        allSources[CHOOSE n \in 1..Len(allSources) :
            /\ allSources[n].sourceId = id
            /\ \A m \in n+1..Len(allSources) : allSources[m].sourceId # id].tags]

\* sources(): (data.sources || []).map(parseSourceInfo)
ParseSources(data) == map(data.sources, parseSourceInfo)

EmptyTagMap == [k \in {} |-> <<>>]

NoParams ==
    [buckets |-> <<>>, cursorKey |-> "", headUrl |-> "", latestUrl |-> "",
     sources |-> None, tags |-> None]

\* A call that has not been made (or whose result the caller has taken).
IdleFrame ==
    [pc |-> "idle", op |-> "", sourceId |-> undefined, options |-> [tags |-> None, sources |-> None, buckets |-> None],
     params |-> NoParams, head |-> parseHead([cursor |-> undefined, ttl_sec |-> None]),
     storedCursor |-> undefined, fetched |-> FALSE,
     feed |-> [cursor |-> "", items |-> <<>>], tagMap |-> None,
     items |-> <<>>, status |-> "pending", reqs |-> <<>>, failed |-> <<>>, after |-> FALSE]

\* WatchOptions without any option given.
NoWatchOptions == [tags |-> None, sources |-> None, buckets |-> None, interval |-> None]

\* watch() has not been called in this process.
NoWatcher(options) ==
    [pc |-> "off", options |-> options, interval |-> 0, aborted |-> FALSE,
     headFetches |-> 0, items |-> <<>>, invoked |-> <<>>, queue |-> <<>>,
     woken |-> "no", thrown |-> 0, restarts |-> 0, reported |-> FALSE]

\* No direct call of the cursor store was made.
NoStoreCall == [op |-> "none", key |-> undefined, threw |-> FALSE]

\* discoverSources() has not been called.
NoDiscovery == [pc |-> "idle", dependencies |-> <<>>, result |-> <<>>, status |-> "pending"]

\* No decoder was called.
NoDecoding == [op |-> "none"]

\* None of head(), fetchFeed(), sources() and checkHealth() is in progress.
NoFacade == [op |-> "", pc |-> "idle", result |-> <<>>, status |-> "pending", url |-> ""]

\* fetchJson() has not been called.
NoRequest ==
    [aborted |-> FALSE, code |-> 0, error |-> "", finished |-> 0, pc |-> "idle",
     status |-> "pending", timer |-> "none", url |-> "", windows |-> 0]

\* The items a poll made by watch() returns are owed to the callback.
Owing(f) ==
    IF watcher.pc = "polling" /\ f.pc = "done" /\ f.status = "resolved"
    THEN owed \cup {f.items[n].id : n \in 1..Len(f.items)}
    ELSE owed

\* The server's documents for a key changed, or its cursor was reset: a poll that
\* has not seen its head yet no longer follows the last full fetch.
Invalidate(keys) ==
    /\ fetchedSince' = [k \in Keys |-> IF k \in keys THEN FALSE ELSE fetchedSince[k]]
    /\ calls' = [c \in DOMAIN calls |->
                    IF calls[c].pc = "head" /\ calls[c].params.cursorKey \in keys
                    THEN [calls[c] EXCEPT !.after = FALSE]
                    ELSE calls[c]]

\* The frame of a call of pollFeed at its first await: this.head(headUrl) has sent
\* the head request.
NewFrame(op, sourceId, options, params) ==
    [IdleFrame EXCEPT !.pc = "head", !.op = op, !.sourceId = sourceId,
                      !.options = options,
                      !.params = params, !.reqs = <<params.headUrl>>,
                      !.after = fetchedSince[params.cursorKey]]

\* pollFeed up to its first await.
StartPollFeed(c, op, sourceId, options, params) ==
    /\ calls[c].pc = "idle"
    /\ calls' = [calls EXCEPT ![c] = NewFrame(op, sourceId, options, params)]
    /\ UNCHANGED <<server, cursors, file, durable, sourceTagsCache, fetchedSince, cacheBy, watcher, owed, delivered, storeResult, discovery,
                   decoded, request, facade>>

\* poll(options)
Poll(c, options) == StartPollFeed(c, "poll", undefined, options, PollParams(options))

\* pollSource(sourceId, options)
PollSource(c, sourceId, options) ==
    StartPollFeed(c, "pollSource", sourceId, options, PollSourceParams(sourceId, options))

\* Mutant: pollFeed catches the failure and resolves with no items.
FetchFailsSwallowed(c) ==
    /\ calls[c].pc \in {"head", "latest"}
    /\ calls' = [calls EXCEPT ![c].pc = "done", ![c].status = "resolved",
                               ![c].failed = <<Last(calls[c].reqs)>>]
    /\ UNCHANGED <<server, cursors, file, durable, sourceTagsCache, fetchedSince, cacheBy,
                   watcher, owed, delivered, storeResult, discovery,
                   decoded, request, facade>>

\* Mutant: a failed request is sent once more before pollFeed gives up.
FetchFailsRetried(c) ==
    /\ calls[c].pc \in {"head", "latest"}
    /\ calls' = [calls EXCEPT ![c] =
          IF calls[c].failed = <<>>
          THEN [calls[c] EXCEPT !.failed = <<Last(calls[c].reqs)>>,
                                !.reqs = Append(calls[c].reqs, Last(calls[c].reqs))]
          ELSE [calls[c] EXCEPT !.pc = "done", !.status = "rejected"]]
    /\ UNCHANGED <<server, cursors, file, durable, sourceTagsCache, fetchedSince, cacheBy,
                   watcher, owed, delivered, storeResult, discovery, decoded, request, facade>>

\* fetchJson rejects (network error, timeout, non-2xx status) while pollFeed awaits
\* the head or the full feed: the rejection propagates out of pollFeed.
FetchFails(c) ==
    /\ calls[c].pc \in {"head", "latest"}
    /\ calls' = [calls EXCEPT ![c].pc = "done", ![c].status = "rejected",
                               ![c].failed = <<Last(calls[c].reqs)>>]
    /\ UNCHANGED <<server, cursors, file, durable, sourceTagsCache, fetchedSince, cacheBy, watcher, owed, delivered, storeResult, discovery,
                   decoded, request, facade>>

\* The head arrives: steps 1-2 of pollFeed, and the request of step 3.
HeadArrives(c) ==
    /\ calls[c].pc = "head"
    /\ LET f == calls[c]
           head == parseHead(server[f.params.headUrl])
           storedCursor == get(cursors, f.params.cursorKey)
       IN  calls' = [calls EXCEPT ![c] =
               IF CursorUnchanged(storedCursor, head)
               THEN [f EXCEPT !.pc = "done", !.status = "resolved", !.head = head,
                              !.storedCursor = storedCursor, !.items = <<>>]
               ELSE [f EXCEPT !.pc = "latest", !.head = head,
                              !.storedCursor = storedCursor,
                              !.reqs = Append(f.reqs, f.params.latestUrl)]]
    /\ UNCHANGED <<server, cursors, file, durable, sourceTagsCache, fetchedSince, cacheBy, watcher, owed, delivered, storeResult, discovery,
                   decoded, request, facade>>

\* Mutant: the cursor is saved after the bucket and source filters, and only when
\* they leave an item.
FeedArrivesFilteredFirst(c) ==
    /\ calls[c].pc = "latest"
    /\ LET f == calls[c]
           feed == parseFeed(server[f.params.latestUrl])
           items == FilterBySource(FilterByBucket(feed.items, f.params.buckets),
                                   f.params.sources)
           store == IF items # <<>> THEN SaveCursor(cursors, f.params.cursorKey, feed)
                    ELSE cursors
           g == [f EXCEPT !.feed = feed, !.fetched = TRUE]
       IN  /\ cursors' = store
           /\ IF feed.cursor # "" THEN Saved(store) ELSE file' = file
           /\ fetchedSince' = [fetchedSince EXCEPT ![f.params.cursorKey] = TRUE]
           /\ calls' = [calls EXCEPT ![c] =
                 IF ~HasLength(f.params.tags)
                 THEN [g EXCEPT !.pc = "done", !.status = "resolved", !.items = items]
                 ELSE IF sourceTagsCache.some
                 THEN [g EXCEPT !.pc = "done", !.status = "resolved",
                                !.tagMap = sourceTagsCache,
                                !.items = FilterByTags(items, f.params.tags.v,
                                                       sourceTagsCache.v)]
                 ELSE [g EXCEPT !.pc = "sources", !.items = items,
                                !.reqs = Append(f.reqs, SourcesUrl)]]
    /\ owed' = Owing(calls'[c])
    /\ UNCHANGED <<server, durable, sourceTagsCache, cacheBy, watcher, delivered, storeResult, discovery,
                   decoded, request, facade>>

\* The full feed arrives: steps 3-5 of pollFeed up to the tag filter, which either
\* uses the cached tag map at once or sends the sources request of getSourceTags.
FeedArrives(c) ==
    /\ calls[c].pc = "latest"
    /\ LET f == calls[c]
           feed == parseFeed(server[f.params.latestUrl])
           store == SaveCursor(cursors, f.params.cursorKey, feed)
           items == FilterBySource(FilterByBucket(feed.items, f.params.buckets),
                                   f.params.sources)
           g == [f EXCEPT !.feed = feed, !.fetched = TRUE]
       IN  /\ cursors' = store
           /\ IF feed.cursor # "" THEN Saved(store) ELSE file' = file
           /\ fetchedSince' = [fetchedSince EXCEPT ![f.params.cursorKey] = TRUE]
           /\ calls' = [calls EXCEPT ![c] =
                 IF ~HasLength(f.params.tags)
                 THEN [g EXCEPT !.pc = "done", !.status = "resolved", !.items = items]
                 ELSE IF sourceTagsCache.some
                 THEN [g EXCEPT !.pc = "done", !.status = "resolved",
                                !.tagMap = sourceTagsCache,
                                !.items = FilterByTags(items, f.params.tags.v,
                                                       sourceTagsCache.v)]
                 ELSE [g EXCEPT !.pc = "sources", !.items = items,
                                !.reqs = Append(f.reqs, SourcesUrl)]]
    /\ owed' = Owing(calls'[c])
    /\ UNCHANGED <<server, durable, sourceTagsCache, cacheBy, watcher, delivered, storeResult, discovery,
                   decoded, request, facade>>

\* getSourceTags after its await: the source list arrived and becomes the cache.
SourcesArrive(c) ==
    /\ calls[c].pc = "sources"
    /\ LET f == calls[c]
           tagMap == TagMapOf(ParseSources(server[SourcesUrl]))
       IN  /\ sourceTagsCache' = Some(tagMap)
           /\ calls' = [calls EXCEPT ![c] =
                 [f EXCEPT !.pc = "done", !.status = "resolved", !.tagMap = Some(tagMap),
                           !.items = FilterByTags(f.items, f.params.tags.v, tagMap)]]
    /\ cacheBy' = calls[c].params.cursorKey
    /\ owed' = Owing(calls'[c])
    /\ UNCHANGED <<server, cursors, file, durable, fetchedSince, watcher, delivered, storeResult, discovery,
                   decoded, request, facade>>

\* Mutant: getSourceTags without its try/catch, the failure rejects the poll.
CatchSourcesFailureRethrown(f) ==
    [f EXCEPT !.pc = "done", !.status = "rejected", !.failed = <<SourcesUrl>>]

\* The catch of getSourceTags: the empty map is cached and returned, and pollFeed
\* goes on to filter with it.
CatchSourcesFailure(f) ==
    [f EXCEPT !.pc = "done", !.status = "resolved", !.tagMap = Some(EmptyTagMap),
              !.failed = <<SourcesUrl>>,
              !.items = FilterByTags(f.items, f.params.tags.v, EmptyTagMap)]

\* getSourceTags after its await: the fetch of the source list failed.
SourcesFail(c) ==
    /\ calls[c].pc = "sources"
    /\ sourceTagsCache' = Some(EmptyTagMap)
    /\ calls' = [calls EXCEPT ![c] = CatchSourcesFailure(calls[c])]
    /\ cacheBy' = calls[c].params.cursorKey
    /\ owed' = Owing(calls'[c])
    /\ UNCHANGED <<server, cursors, file, durable, fetchedSince, watcher, delivered, storeResult, discovery,
                   decoded, request, facade>>

\* The caller takes the settled promise; the slot is free for the next call.
Return(c) ==
    /\ calls[c].pc = "done"
    /\ calls' = [calls EXCEPT ![c] = IdleFrame]
    /\ UNCHANGED <<server, cursors, file, durable, sourceTagsCache, fetchedSince, cacheBy, watcher, owed, delivered, storeResult, discovery,
                   decoded, request, facade>>

\* resetCursors(sourceId): `if (sourceId)` is false for undefined and for "".
resetCursors(sourceId) ==
    /\ LET key == IF sourceId # undefined /\ sourceId # "" THEN SourceKey(sourceId)
                  ELSE undefined
           store == clear(cursors, key)
       IN  /\ cursors' = store
           /\ Saved(store)
           /\ Invalidate(IF key = undefined THEN Keys ELSE {key})
    /\ UNCHANGED <<server, durable, sourceTagsCache, cacheBy, watcher, owed, delivered, storeResult, discovery,
                   decoded, request, facade>>

\* The service publishes another generation of one feed.
Publish(feed, g) ==
    /\ server[feed.headUrl] # Generations[g].head \/ server[feed.latestUrl] # Generations[g].latest
    /\ server' = [server EXCEPT ![feed.headUrl] = Generations[g].head,
                                ![feed.latestUrl] = Generations[g].latest]
    /\ Invalidate({feed.key})
    /\ UNCHANGED <<cursors, file, durable, sourceTagsCache, cacheBy, watcher, owed, delivered, storeResult, discovery,
                   decoded, request, facade>>

\* The service changes a source's tags.
PublishSources(n) ==
    /\ server[SourcesUrl] # SourcesDocs[n]
    /\ server' = [server EXCEPT ![SourcesUrl] = SourcesDocs[n]]
    /\ UNCHANGED <<cursors, file, durable, sourceTagsCache, calls, fetchedSince, cacheBy, watcher, owed, delivered, storeResult, discovery,
                   decoded, request, facade>>

-----------------------------------------------------------------------------
(* Direct use of the cursor store, src/unnamed/part_002 lines 14-97 *)

\* Mutant: load() and save() without their try/catch.
Surfaced(failed) == failed

\* The try/catch of load() and of save(): whether the operation failed or not,
\* nothing is thrown to the caller.
Swallowed(failed) == FALSE

\* store.set(key, cursor): the assignment, then save().
StoreSet(key, cursor) ==
    /\ cursors' = put(cursors, key, cursor)
    /\ Saved(cursors')
    /\ storeResult' = [op |-> "set", key |-> key,
                       threw |-> Swallowed(durable /\ file' # stringify(cursors'))]
    /\ Invalidate({key})
    /\ UNCHANGED <<server, durable, sourceTagsCache, cacheBy, watcher, owed, delivered,
                   discovery,
                   decoded, request, facade>>

\* store.clear(key): `if (key)` is false for undefined and for "".
StoreClear(key) ==
    /\ cursors' = clear(cursors, key)
    /\ Saved(cursors')
    /\ storeResult' = [op |-> "clear", key |-> key,
                       threw |-> Swallowed(durable /\ file' # stringify(cursors'))]
    /\ Invalidate(IF key = undefined \/ key = "" THEN Keys ELSE {key})
    /\ UNCHANGED <<server, durable, sourceTagsCache, cacheBy, watcher, owed, delivered,
                   discovery,
                   decoded, request, facade>>

\* new DiffDelta(...) in a new process: the constructor of CursorStore loads the
\* file at the same path; a MemoryCursorStore starts empty.
Reopen ==
    /\ \A c \in DOMAIN calls : calls[c].pc = "idle"
    /\ cursors' = IF durable THEN load(file) ELSE EmptyStore
    /\ storeResult' = [op |-> "construct", key |-> undefined,
                       threw |-> Swallowed(durable /\ file.kind \in {"corrupt", "unreadable"})]
    /\ sourceTagsCache' = None
    /\ cacheBy' = ""
    /\ fetchedSince' = [k \in Keys |-> FALSE]
    /\ UNCHANGED <<server, file, durable, calls, watcher, owed, delivered, discovery, decoded, request, facade>>

\* Something else damages or removes the cursor file.
Damage(disk) ==
    /\ durable
    /\ file # disk
    /\ file' = disk
    /\ UNCHANGED <<server, cursors, durable, sourceTagsCache, calls, fetchedSince, cacheBy,
                   watcher, owed, delivered, storeResult, discovery,
                   decoded, request, facade>>

-----------------------------------------------------------------------------
(* discoverSources, src/unnamed/part_002 lines 297-317 *)

\* String.prototype.toLowerCase, letter by letter.
LowerChar(ch) ==
    IF ch = "A" THEN "a" ELSE IF ch = "B" THEN "b" ELSE IF ch = "C" THEN "c" ELSE ch

toLowerCase(name) == [i \in 1..Len(name) |-> LowerChar(name[i])]

\* data.dependencies || data.dependency_map || {}: an object, even an empty one,
\* is truthy.
DepsObj(data) ==
    IF data.dependencies.some THEN data.dependencies.v
    ELSE IF data.dependency_map.some THEN data.dependency_map.v
    ELSE [n \in {} |-> NullEntry]

\* depsObj[key], undefined (here null) for a key the object lacks.
EntryOf(depsObj, key) == IF key \in DOMAIN depsObj THEN depsObj[key] ELSE NullEntry

\* `Array.isArray(entry) ? entry : entry.sources`, kept when it is an array.
SourcesOfEntry(entry) ==
    IF entry.kind = "array" THEN entry.v
    ELSE IF entry.kind = "object" /\ entry.sources.some THEN entry.sources.v
    ELSE <<>>

\* Mutant: the ids are collected in an array, not in a Set.
RECURSIVE AddAllKeepDuplicates(_, _)
AddAllKeepDuplicates(acc, ids) ==
    IF ids = <<>> THEN acc
    ELSE AddAllKeepDuplicates(Append(acc, Head(ids)), Tail(ids))

\* `for (const s of sources) sourceIds.add(s)`: a Set keeps the first insertion of
\* each value, in insertion order.
RECURSIVE AddAll(_, _)
AddAll(acc, ids) ==
    IF ids = <<>> THEN acc
    ELSE AddAll(IF includes(acc, Head(ids)) THEN acc ELSE Append(acc, Head(ids)), Tail(ids))

\* The loop over the dependencies, and `[...sourceIds]`.
RECURSIVE Collect(_, _, _)
Collect(depsObj, dependencies, acc) ==
    IF dependencies = <<>> THEN acc
    ELSE LET entry == EntryOf(depsObj, toLowerCase(Head(dependencies)))
         IN  Collect(depsObj, Tail(dependencies),
                     IF entry.kind = "null" THEN acc
                     ELSE AddAll(acc, SourcesOfEntry(entry)))

\* discoverSources(dependencies) up to its await: the stacks request is sent.
DiscoverSources(dependencies) ==
    /\ discovery.pc = "idle"
    /\ discovery' = [pc |-> "stacks", dependencies |-> dependencies, result |-> <<>>,
                     status |-> "pending"]
    /\ UNCHANGED <<server, cursors, file, durable, sourceTagsCache, calls, fetchedSince,
                   cacheBy, watcher, owed, delivered, storeResult,
                   decoded, request, facade>>

\* The stacks document arrives: the lookup, and the promise resolves.
StacksArrive ==
    /\ discovery.pc = "stacks"
    /\ discovery' = [discovery EXCEPT
            !.pc = "done", !.status = "resolved",
            !.result = Collect(DepsObj(server[StacksUrl]), discovery.dependencies, <<>>)]
    /\ UNCHANGED <<server, cursors, file, durable, sourceTagsCache, calls, fetchedSince,
                   cacheBy, watcher, owed, delivered, storeResult,
                   decoded, request, facade>>

\* fetchJson rejects: the rejection propagates out of discoverSources.
StacksFail ==
    /\ discovery.pc = "stacks"
    /\ discovery' = [discovery EXCEPT !.pc = "done", !.status = "rejected"]
    /\ UNCHANGED <<server, cursors, file, durable, sourceTagsCache, calls, fetchedSince,
                   cacheBy, watcher, owed, delivered, storeResult,
                   decoded, request, facade>>

\* The caller takes the settled promise.
DiscoverReturns ==
    /\ discovery.pc = "done"
    /\ discovery' = NoDiscovery
    /\ UNCHANGED <<server, cursors, file, durable, sourceTagsCache, calls, fetchedSince,
                   cacheBy, watcher, owed, delivered, storeResult,
                   decoded, request, facade>>

-----------------------------------------------------------------------------
(* The low-level calls: head, fetchFeed, sources (src/src/client.ts lines 146-167)
   and checkHealth (src/unnamed/part_002 lines 281-284) *)

\* `url || default`
UrlOr(url, default) == IF url = undefined \/ url = "" THEN default ELSE url

\* Each of the four calls up to its await: fetchJson(url) has sent the request.
FacadeCall(op, url) ==
    /\ facade.pc = "idle"
    /\ facade' = [NoFacade EXCEPT !.op = op, !.pc = "await", !.url = url]
    /\ UNCHANGED <<server, cursors, file, durable, sourceTagsCache, calls, fetchedSince,
                   cacheBy, watcher, owed, delivered, storeResult, discovery, decoded,
                   request>>

\* head(url)
HeadCall(url) == FacadeCall("head", UrlOr(url, GlobalHeadUrl))

\* fetchFeed(url)
FetchFeedCall(url) == FacadeCall("fetchFeed", UrlOr(url, GlobalLatestUrl))

\* sources()
SourcesCall == FacadeCall("sources", SourcesUrl)

\* checkHealth()
CheckHealthCall == FacadeCall("checkHealth", HealthUrl)

\* What the call returns for the document fetched.
FacadeResult(op, data) ==
    CASE op = "head"        -> parseHead(data)
      [] op = "fetchFeed"   -> parseFeed(data)
      [] op = "sources"     -> ParseSources(data)
      [] op = "checkHealth" -> parseHealthCheckRaw(data).value

\* Mutant: fetchFeed() saves the cursor of the feed it fetched, as a poll does.
FacadeArrivesSavesCursor ==
    /\ facade.pc = "await"
    /\ facade' = [facade EXCEPT !.pc = "done", !.status = "resolved",
                                !.result = FacadeResult(facade.op, server[facade.url])]
    /\ cursors' = IF facade.op = "fetchFeed"
                  THEN SaveCursor(cursors, GlobalKey, parseFeed(server[facade.url]))
                  ELSE cursors
    /\ UNCHANGED <<server, file, durable, sourceTagsCache, calls, fetchedSince,
                   cacheBy, watcher, owed, delivered, storeResult, discovery, decoded,
                   request>>

\* The document arrives: it is decoded and returned; nothing of the client changes.
FacadeArrives ==
    /\ facade.pc = "await"
    /\ facade' = [facade EXCEPT !.pc = "done", !.status = "resolved",
                                !.result = FacadeResult(facade.op, server[facade.url])]
    /\ UNCHANGED <<server, cursors, file, durable, sourceTagsCache, calls, fetchedSince,
                   cacheBy, watcher, owed, delivered, storeResult, discovery, decoded,
                   request>>

\* fetchJson rejects: the rejection propagates to the caller.
FacadeFails ==
    /\ facade.pc = "await"
    /\ facade' = [facade EXCEPT !.pc = "done", !.status = "rejected"]
    /\ UNCHANGED <<server, cursors, file, durable, sourceTagsCache, calls, fetchedSince,
                   cacheBy, watcher, owed, delivered, storeResult, discovery, decoded,
                   request>>

\* The caller takes the settled promise.
FacadeReturns ==
    /\ facade.pc = "done"
    /\ facade' = NoFacade
    /\ UNCHANGED <<server, cursors, file, durable, sourceTagsCache, calls, fetchedSince,
                   cacheBy, watcher, owed, delivered, storeResult, discovery, decoded,
                   request>>

-----------------------------------------------------------------------------
(* Calls of the decoders, src/src/models.ts lines 194-326 *)

Decoding(op, data, bucket, result) ==
    /\ decoded.op = "none"
    /\ decoded' = [op |-> op, input |-> data, bucket |-> bucket, result |-> result]
    /\ UNCHANGED <<server, cursors, file, durable, sourceTagsCache, calls, fetchedSince,
                   cacheBy, watcher, owed, delivered, storeResult, discovery, request, facade>>

ParseFeedItem(data, bucket) ==
    Decoding("parseFeedItem", data, bucket, parseFeedItemRaw(data, bucket))

ParseHead(data) == Decoding("parseHead", data, "", parseHeadRaw(data))

ParseFeed(data) == Decoding("parseFeed", data, "", parseFeedRaw(data))

ParseSourceInfo(data) == Decoding("parseSourceInfo", data, "", parseSourceInfoRaw(data))

ParseHealthCheck(data) == Decoding("parseHealthCheck", data, "", parseHealthCheckRaw(data))

\* The caller drops the decoded record.
Discard ==
    /\ decoded.op # "none"
    /\ decoded' = NoDecoding
    /\ UNCHANGED <<server, cursors, file, durable, sourceTagsCache, calls, fetchedSince,
                   cacheBy, watcher, owed, delivered, storeResult, discovery, request, facade>>

-----------------------------------------------------------------------------
(* fetchJson, src/src/client.ts lines 316-337 *)

\* `res.ok`: the status is in the range 200-299.
Ok(code) == code >= 200 /\ code <= 299

\* Mutant: fetchJson without its finally, the timer is left running.
SettledUncleared(r, status, error) ==
    [r EXCEPT !.pc = "done", !.status = status, !.error = error]

\* fetchJson settles; on the way out the finally block calls clearTimeout(timer),
\* which stops a timer that has not fired.
Settled(r, status, error) ==
    [r EXCEPT !.pc = "done", !.status = status, !.error = error,
              !.timer = IF @ = "armed" THEN "cleared" ELSE @]

\* How many fetchJson calls one behaviour makes.
MaxFetches == 3

\* fetchJson(url) up to its first await: a new AbortController, the timer set,
\* the request sent with the controller's signal.
FetchJson(url) ==
    /\ request.pc = "idle"
    /\ request.finished < MaxFetches
    /\ request' = [request EXCEPT !.pc = "fetching", !.url = url, !.timer = "armed",
                                  !.aborted = FALSE, !.status = "pending", !.error = "",
                                  !.code = 0, !.windows = 1]
    /\ UNCHANGED <<server, cursors, file, durable, sourceTagsCache, calls, fetchedSince,
                   cacheBy, watcher, owed, delivered, storeResult, discovery, decoded, facade>>

\* `await fetch(...)` resolves with a response: a status outside 200-299 throws,
\* otherwise fetchJson awaits the body.
ResponseArrives(code) ==
    /\ request.pc = "fetching"
    /\ ~request.aborted
    /\ request' = IF Ok(code) THEN [request EXCEPT !.pc = "body", !.code = code]
                  ELSE Settled([request EXCEPT !.code = code], "rejected", "http")
    /\ UNCHANGED <<server, cursors, file, durable, sourceTagsCache, calls, fetchedSince,
                   cacheBy, watcher, owed, delivered, storeResult, discovery, decoded, facade>>

\* `await res.json()` resolves with the document, or rejects on a body that is
\* not JSON.
BodyArrives(isJson) ==
    /\ request.pc = "body"
    /\ ~request.aborted
    /\ request' = IF isJson THEN Settled(request, "resolved", "")
                  ELSE Settled(request, "rejected", "parse")
    /\ UNCHANGED <<server, cursors, file, durable, sourceTagsCache, calls, fetchedSince,
                   cacheBy, watcher, owed, delivered, storeResult, discovery, decoded, facade>>

\* The connection fails while the response or its body is awaited.
NetworkError ==
    /\ request.pc \in {"fetching", "body"}
    /\ ~request.aborted
    /\ request' = Settled(request, "rejected", "network")
    /\ UNCHANGED <<server, cursors, file, durable, sourceTagsCache, calls, fetchedSince,
                   cacheBy, watcher, owed, delivered, storeResult, discovery, decoded, facade>>

\* The timer set by fetchJson expires: its callback runs controller.abort().
TimerExpires ==
    /\ request.timer = "armed"
    /\ request' = [request EXCEPT !.timer = "fired", !.aborted = TRUE]
    /\ UNCHANGED <<server, cursors, file, durable, sourceTagsCache, calls, fetchedSince,
                   cacheBy, watcher, owed, delivered, storeResult, discovery, decoded, facade>>

\* The aborted signal rejects the pending fetch or body read with an AbortError.
AbortRejects ==
    /\ request.pc \in {"fetching", "body"}
    /\ request.aborted
    /\ request' = Settled(request, "rejected", "abort")
    /\ UNCHANGED <<server, cursors, file, durable, sourceTagsCache, calls, fetchedSince,
                   cacheBy, watcher, owed, delivered, storeResult, discovery, decoded, facade>>

\* The caller takes the settled promise.
FetchReturns ==
    /\ request.pc = "done"
    /\ request' = [request EXCEPT !.pc = "idle", !.finished = @ + 1]
    /\ UNCHANGED <<server, cursors, file, durable, sourceTagsCache, calls, fetchedSince,
                   cacheBy, watcher, owed, delivered, storeResult, discovery, decoded, facade>>

-----------------------------------------------------------------------------
(* The watch loop, src/src/client.ts watch *)

\* The call slot watch() polls through.
WatchCall == 1

\* `Math.max(h.ttlSec, 60)`: the shortest interval taken from a head.
MinInterval == 60

\* `interval = 900`: the interval when the head cannot be fetched.
FallbackInterval == 900

\* Mutant: the smaller of the two.
Min(a, b) == IF a <= b THEN a ELSE b

Max(a, b) == IF a >= b THEN a ELSE b

\* The options watch() hands to poll(): { tags, sources, buckets }.
PollOptionsOf(options) ==
    [tags |-> options.tags, sources |-> options.sources, buckets |-> options.buckets]

\* `while (!signal?.aborted)` and, inside the loop, `await this.poll(...)` up to the
\* head request of pollFeed; after the loop, "Stopped." and watch() resolves.
EnterLoop(w) ==
    IF w.aborted
    THEN /\ watcher' = [w EXCEPT !.pc = "stopped"]
         /\ calls' = [calls EXCEPT ![WatchCall] = IdleFrame]
    ELSE /\ watcher' = [w EXCEPT !.pc = "polling", !.items = <<>>, !.invoked = <<>>,
                                  !.woken = "no", !.reported = FALSE]
         /\ calls' = [calls EXCEPT ![WatchCall] =
                NewFrame("poll", undefined, PollOptionsOf(w.options),
                         PollParams(PollOptionsOf(w.options)))]

\* Mutant: the loop body without its try/catch, the failure rejects watch().
CatchInLoopRethrown(w) == [w EXCEPT !.pc = "rejected", !.queue = <<>>]

\* Mutant: the catch leaves the loop whether or not the signal is aborted.
CatchInLoopBreaks(w) == [w EXCEPT !.pc = "stopped", !.queue = <<>>]

\* Mutant: the failure is caught around the single callback, the loop over the
\* items goes on.
CatchInLoopResumes(w) == [w EXCEPT !.pc = "callback"]

\* Mutant: the catch reports the failure before it tests the signal.
CatchInLoopReportsFirst(w) ==
    IF w.aborted THEN [w EXCEPT !.pc = "stopped", !.queue = <<>>, !.reported = TRUE]
    ELSE [w EXCEPT !.pc = "sleep", !.queue = <<>>, !.woken = "no", !.reported = TRUE]

\* The catch of the loop body: `if (signal?.aborted) break`, else report the
\* failure with console.error and go on to the sleep.
CatchInLoop(w) ==
    IF w.aborted THEN [w EXCEPT !.pc = "stopped", !.queue = <<>>]
    ELSE [w EXCEPT !.pc = "sleep", !.queue = <<>>, !.woken = "no", !.reported = TRUE]

\* Mutant: the loop over the items runs from the end.
NextItemFromEnd(w, items) ==
    IF Len(items) > 0
    THEN /\ watcher' = [w EXCEPT !.pc = "callback",
                                  !.queue = SubSeq(items, 1, Len(items) - 1),
                                  !.invoked = Append(w.invoked, Last(items))]
         /\ delivered' = delivered \cup {Last(items).id}
    ELSE /\ watcher' = [w EXCEPT !.pc = "sleep", !.queue = <<>>, !.woken = "no"]
         /\ delivered' = delivered

\* Mutant: the loop over the items tests the signal before each item.
NextItemUnlessAborted(w, items) ==
    IF Len(items) > 0 /\ ~w.aborted
    THEN /\ watcher' = [w EXCEPT !.pc = "callback", !.queue = Tail(items),
                                  !.invoked = Append(w.invoked, Head(items))]
         /\ delivered' = delivered \cup {Head(items).id}
    ELSE /\ watcher' = [w EXCEPT !.pc = "sleep", !.queue = <<>>, !.woken = "no"]
         /\ delivered' = delivered

\* `for (const item of items) await callback(item)`: the callback is called with
\* the next item, or the loop body is over and watch() sleeps.
NextItem(w, items) ==
    IF Len(items) > 0
    THEN /\ watcher' = [w EXCEPT !.pc = "callback", !.queue = Tail(items),
                                  !.invoked = Append(w.invoked, Head(items))]
         /\ delivered' = delivered \cup {Head(items).id}
    ELSE /\ watcher' = [w EXCEPT !.pc = "sleep", !.queue = <<>>, !.woken = "no"]
         /\ delivered' = delivered

\* watch(callback, options) up to its first await: with an interval given it enters
\* the loop, without one (undefined or 0) it asks for the global head.
Watch ==
    /\ watcher.pc = "off"
    /\ LET w == watcher
       IN  IF w.options.interval.some /\ w.options.interval.v # 0
           THEN EnterLoop([w EXCEPT !.interval = w.options.interval.v])
           ELSE /\ watcher' = [w EXCEPT !.pc = "interval", !.headFetches = @ + 1]
                /\ calls' = calls
    /\ UNCHANGED <<server, cursors, file, durable, sourceTagsCache, fetchedSince, cacheBy,
                   owed, delivered, storeResult, discovery,
                   decoded, request, facade>>

\* `const h = await this.head()` resolves: the interval is the head's ttlSec, at
\* least a minute.
IntervalHeadArrives ==
    /\ watcher.pc = "interval"
    /\ EnterLoop([watcher EXCEPT
            !.interval = Max(parseHead(server[GlobalHeadUrl]).ttlSec, MinInterval)])
    /\ UNCHANGED <<server, cursors, file, durable, sourceTagsCache, fetchedSince, cacheBy,
                   owed, delivered, storeResult, discovery,
                   decoded, request, facade>>

\* `await this.head()` rejects: the catch sets the default interval.
IntervalHeadFails ==
    /\ watcher.pc = "interval"
    /\ EnterLoop([watcher EXCEPT !.interval = FallbackInterval])
    /\ UNCHANGED <<server, cursors, file, durable, sourceTagsCache, fetchedSince, cacheBy,
                   owed, delivered, storeResult, discovery,
                   decoded, request, facade>>

\* `await this.poll(...)` settles: on a rejection the catch runs, otherwise the
\* callback is called with the first item, or there is none and watch() sleeps.
PollSettles ==
    /\ watcher.pc = "polling"
    /\ calls[WatchCall].pc = "done"
    /\ IF calls[WatchCall].status = "rejected"
       THEN watcher' = CatchInLoop(watcher) /\ delivered' = delivered
       ELSE NextItem([watcher EXCEPT !.items = calls[WatchCall].items],
                     calls[WatchCall].items)
    /\ calls' = [calls EXCEPT ![WatchCall] = IdleFrame]
    /\ UNCHANGED <<server, cursors, file, durable, sourceTagsCache, fetchedSince, cacheBy,
                   owed, storeResult, discovery,
                   decoded, request, facade>>

\* `await callback(item)` resolves: on to the next item.
CallbackReturns ==
    /\ watcher.pc = "callback"
    /\ NextItem(watcher, watcher.queue)
    /\ UNCHANGED <<server, cursors, file, durable, sourceTagsCache, calls, fetchedSince,
                   cacheBy, owed, storeResult, discovery,
                   decoded, request, facade>>

\* How often the callback fails in one behaviour.
MaxThrown == 1

\* The callback throws or its promise rejects: the catch runs and the rest of the
\* items is dropped.
CallbackThrows ==
    /\ watcher.pc = "callback"
    /\ watcher.thrown < MaxThrown
    /\ watcher' = CatchInLoop([watcher EXCEPT !.thrown = @ + 1])
    /\ UNCHANGED <<server, cursors, file, durable, sourceTagsCache, calls, fetchedSince,
                   cacheBy, owed, delivered, storeResult, discovery,
                   decoded, request, facade>>

\* setTimeout(resolve, interval * 1000): the timer of the sleep expires and
\* resolves the promise watch() awaits.
TimerFires ==
    /\ watcher.pc = "sleep"
    /\ watcher.woken = "no"
    /\ watcher' = [watcher EXCEPT !.woken = "timer"]
    /\ UNCHANGED <<server, cursors, file, durable, sourceTagsCache, calls, fetchedSince,
                   cacheBy, owed, delivered, storeResult, discovery,
                   decoded, request, facade>>

\* The promise of the sleep is resolved, by the timer or by the abort listener:
\* watch() resumes and evaluates the loop condition.
Wake ==
    /\ watcher.pc = "sleep"
    /\ watcher.woken # "no"
    /\ EnterLoop(watcher)
    /\ UNCHANGED <<server, cursors, file, durable, sourceTagsCache, fetchedSince, cacheBy,
                   owed, delivered, storeResult, discovery,
                   decoded, request, facade>>

\* Mutant: an abort that no listener hears.
AbortUnheard ==
    /\ watcher.pc \notin {"off", "stopped"}
    /\ ~watcher.aborted
    /\ watcher' = [watcher EXCEPT !.aborted = TRUE]
    /\ UNCHANGED <<server, cursors, file, durable, sourceTagsCache, calls, fetchedSince,
                   cacheBy, owed, delivered, storeResult, discovery,
                   decoded, request, facade>>

\* The caller aborts the signal it passed in options.signal. A listener exists only
\* while watch() sleeps (it is added when the sleep starts, to a signal that was
\* not aborted yet): it clears the timer and resolves the sleep.
Abort ==
    /\ watcher.pc \notin {"off", "stopped"}
    /\ ~watcher.aborted
    /\ watcher' = [watcher EXCEPT !.aborted = TRUE,
                                  !.woken = IF watcher.pc = "sleep" /\ @ = "no"
                                            THEN "abort" ELSE @]
    /\ UNCHANGED <<server, cursors, file, durable, sourceTagsCache, calls, fetchedSince,
                   cacheBy, owed, delivered, storeResult, discovery,
                   decoded, request, facade>>

\* How often the process restarts in one behaviour.
MaxRestarts == 1

\* The process dies and is started again: a new client whose CursorStore loads the
\* cursor file (a MemoryCursorStore starts empty), and watch() is called with the
\* same options and a fresh signal.
Restart ==
    /\ watcher.pc # "off"
    /\ watcher.restarts < MaxRestarts
    /\ cursors' = IF durable THEN load(file) ELSE EmptyStore
    /\ sourceTagsCache' = None
    /\ cacheBy' = ""
    /\ calls' = [c \in DOMAIN calls |-> IdleFrame]
    /\ fetchedSince' = [k \in Keys |-> FALSE]
    /\ watcher' = [NoWatcher(watcher.options) EXCEPT !.thrown = watcher.thrown,
                                                     !.restarts = watcher.restarts + 1]
    /\ UNCHANGED <<server, file, durable, owed, delivered, storeResult, discovery, decoded, request, facade>>

-----------------------------------------------------------------------------
(* The poll engine under sequential one-shot calls *)

NoOptions == [tags |-> None, sources |-> None, buckets |-> None]

\* The options the one-shot calls of Spec are made with.
ProtocolOptions ==
    {NoOptions, [NoOptions EXCEPT !.tags = Some(<<"t1">>)]}

InitWith(ids, gen, n, isDurable, disk) ==
    /\ server = ServerOf(gen, SourcesDocs[n])
    /\ durable = isDurable
    /\ file = disk
    /\ cursors = IF isDurable THEN load(disk) ELSE EmptyStore
    /\ sourceTagsCache = None
    /\ calls = [c \in ids |-> IdleFrame]
    /\ fetchedSince = [k \in Keys |-> FALSE]
    /\ cacheBy = ""
    /\ watcher = NoWatcher(NoWatchOptions)
    /\ owed = {}
    /\ delivered = {}
    /\ storeResult = NoStoreCall
    /\ discovery = NoDiscovery
    /\ decoded = NoDecoding
    /\ request = NoRequest
    /\ facade = NoFacade

\* The steps of the calls in progress.
PollSteps ==
    \/ \E c \in DOMAIN calls : FetchFails(c)
    \/ \E c \in DOMAIN calls : HeadArrives(c)
    \/ \E c \in DOMAIN calls : FeedArrives(c)
    \/ \E c \in DOMAIN calls : SourcesArrive(c)
    \/ \E c \in DOMAIN calls : SourcesFail(c)
    \/ \E c \in DOMAIN calls : Return(c)

\* Spec polls the global feed and the feed of one source, in sequence, against a
\* service that republishes both feeds at any time.
SpecIds == {"s1"}

Init == InitWith({1}, [k \in Keys |-> 1], 1, FALSE, NoFile)

Next ==
    \/ \E c \in DOMAIN calls, options \in ProtocolOptions : Poll(c, options)
    \/ \E c \in DOMAIN calls, id \in SpecIds, options \in ProtocolOptions :
          PollSource(c, id, options)
    \/ PollSteps
    \/ \E id \in SpecIds \cup {undefined} : resetCursors(id)
    \/ \E feed \in Feeds, g \in 1..Len(Generations) :
          feed.key \in {GlobalKey} \cup {SourceKey(id) : id \in SpecIds} /\ Publish(feed, g)

Spec == Init /\ [][Next]_vars

-----------------------------------------------------------------------------
(* The filters of pollFeed: one-shot calls with every combination of options *)

BucketOptions ==
    {None, Some(<<>>), Some(<<"removed">>), Some(<<"flagged", "new", "updated">>),
     Some(<<"new", "updated", "removed", "flagged">>)}

SourceOptions == {None, Some(<<>>), Some(<<"s1">>), Some(<<"s3", "s2">>)}

TagOptions == {None, Some(<<>>), Some(<<"t1">>), Some(<<"t9", "t2">>)}

FilterOptions == [tags : TagOptions, sources : SourceOptions, buckets : BucketOptions]

\* pollSource takes no sources option (Omit<PollOptions, "sources">).
SourceFilterOptions == [tags : TagOptions, sources : {None}, buckets : BucketOptions]

\* Every feed of the service is at the same generation, any of them, and the
\* source list is any of the documents; the service does not republish.
InitFilter ==
    \E g \in 1..Len(Generations), n \in 1..Len(SourcesDocs) :
        InitWith({1}, [k \in Keys |-> g], n, FALSE, NoFile)

NextFilter ==
    \/ \E c \in DOMAIN calls, options \in FilterOptions : Poll(c, options)
    \/ \E c \in DOMAIN calls, id \in SpecIds, options \in SourceFilterOptions :
          PollSource(c, id, options)
    \/ PollSteps
    \/ resetCursors(undefined)

SpecFilter == InitFilter /\ [][NextFilter]_vars

-----------------------------------------------------------------------------
(* Polls of the global feed and of two sources against one client *)

\* The three feeds stand at different generations and are not republished; the
\* source list changes, and cursors are reset one source at a time.
InitKeys ==
    InitWith({1}, [k \in Keys |-> IF k = GlobalKey THEN 1 ELSE IF k = SourceKey("s1") THEN 2 ELSE 3],
             1, FALSE, NoFile)

NextKeys ==
    \/ \E c \in DOMAIN calls, options \in ProtocolOptions : Poll(c, options)
    \/ \E c \in DOMAIN calls, id \in SourceIds, options \in ProtocolOptions :
          PollSource(c, id, options)
    \/ PollSteps
    \/ \E id \in SourceIds : resetCursors(id)
    \/ \E n \in 1..Len(SourcesDocs) : PublishSources(n)

SpecKeys == InitKeys /\ [][NextKeys]_vars

-----------------------------------------------------------------------------
(* watch() against a service that does not republish *)

\* The options watch() is called with.
WatchOptionSet ==
    {NoWatchOptions,
     [NoWatchOptions EXCEPT !.tags = Some(<<"t1">>), !.interval = Some(30)],
     [NoWatchOptions EXCEPT !.interval = Some(0)]}

\* The client has a durable or an in-memory cursor store, empty at first; the
\* global feed is at any generation.
InitWatch ==
    \E g \in 1..Len(Generations), isDurable \in BOOLEAN, options \in WatchOptionSet :
        /\ server = ServerOf([k \in Keys |-> g], SourcesDocs[1])
        /\ durable = isDurable
        /\ file = NoFile
        /\ cursors = EmptyStore
        /\ sourceTagsCache = None
        /\ calls = [c \in {WatchCall} |-> IdleFrame]
        /\ fetchedSince = [k \in Keys |-> FALSE]
        /\ cacheBy = ""
        /\ watcher = NoWatcher(options)
        /\ owed = {}
        /\ delivered = {}
        /\ storeResult = NoStoreCall
        /\ discovery = NoDiscovery
        /\ decoded = NoDecoding
        /\ request = NoRequest
        /\ facade = NoFacade

\* The steps of the poll watch() awaits.
WatchPollSteps ==
    \/ FetchFails(WatchCall)
    \/ HeadArrives(WatchCall)
    \/ FeedArrives(WatchCall)
    \/ SourcesArrive(WatchCall)
    \/ SourcesFail(WatchCall)

NextWatch ==
    \/ Watch
    \/ IntervalHeadArrives
    \/ IntervalHeadFails
    \/ WatchPollSteps
    \/ PollSettles
    \/ CallbackReturns
    \/ CallbackThrows
    \/ TimerFires
    \/ Wake
    \/ Abort
    \/ Restart

\* The event loop runs every continuation that is ready: a started process calls
\* watch(), a settled poll and a returned callback resume the loop, the timer
\* fires. The network is assumed to answer a request that is made again and again.
FairWatch ==
    /\ WF_vars(Watch)
    /\ WF_vars(IntervalHeadArrives \/ IntervalHeadFails)
    /\ SF_vars(HeadArrives(WatchCall))
    /\ SF_vars(FeedArrives(WatchCall))
    /\ SF_vars(SourcesArrive(WatchCall))
    /\ WF_vars(PollSettles)
    /\ WF_vars(CallbackReturns)
    /\ WF_vars(TimerFires)
    /\ WF_vars(Wake)

SpecWatch == InitWatch /\ [][NextWatch]_vars /\ FairWatch

-----------------------------------------------------------------------------
(* The cursor store used directly and through the client *)

StoreCursors == {"c1", "c2"}

\* The keys set() is called with.
SetKeys == {GlobalKey} \cup {SourceKey(id) : id \in SpecIds}

\* The keys clear() is called with: feed keys, none, and the empty string.
ClearKeys == SetKeys \cup {undefined, ""}

\* A durable store on a file that is absent, unparseable or written by an earlier
\* process, or an in-memory store; the feeds are at the first or the second
\* generation.
InitStore ==
    \E g \in {1, 2}, isDurable \in BOOLEAN,
       disk \in {NoFile, CorruptFile, stringify([k \in {GlobalKey} |-> "c1"])} :
        /\ (~isDurable => disk = NoFile)
        /\ InitWith({1}, [k \in Keys |-> g], 1, isDurable, disk)

NextStore ==
    \/ \E key \in SetKeys, cursor \in StoreCursors : StoreSet(key, cursor)
    \/ \E key \in ClearKeys : StoreClear(key)
    \/ \E id \in SpecIds \cup {undefined, ""} : resetCursors(id)
    \/ Reopen
    \/ \E disk \in {NoFile, CorruptFile, UnreadableFile} : Damage(disk)
    \/ \E c \in DOMAIN calls : Poll(c, NoOptions)
    \/ \E c \in DOMAIN calls : FetchFails(c)
    \/ \E c \in DOMAIN calls : HeadArrives(c)
    \/ \E c \in DOMAIN calls : FeedArrives(c)
    \/ \E c \in DOMAIN calls : Return(c)

SpecStore == InitStore /\ [][NextStore]_vars

-----------------------------------------------------------------------------
(* discoverSources with every list of up to three names *)

DepNames == {NameAb, NameAbMixed, NameB, NameBUpper, NameCUpper}

\* The longest list of names discoverSources is called with.
MaxDeps == 3

DepLists == UNION {[1..n -> DepNames] : n \in 0..MaxDeps}

InitDiscover ==
    \E n \in 1..Len(StacksDocs) :
        /\ server = [ServerOf([k \in Keys |-> 1], SourcesDocs[1]) EXCEPT
                        ![StacksUrl] = StacksDocs[n]]
        /\ durable = FALSE
        /\ file = NoFile
        /\ cursors = EmptyStore
        /\ sourceTagsCache = None
        /\ calls = [c \in {1} |-> IdleFrame]
        /\ fetchedSince = [k \in Keys |-> FALSE]
        /\ cacheBy = ""
        /\ watcher = NoWatcher(NoWatchOptions)
        /\ owed = {}
        /\ delivered = {}
        /\ storeResult = NoStoreCall
        /\ discovery = NoDiscovery
        /\ decoded = NoDecoding
        /\ request = NoRequest
        /\ facade = NoFacade

NextDiscover ==
    \/ \E dependencies \in DepLists : DiscoverSources(dependencies)
    \/ StacksArrive
    \/ StacksFail
    \/ DiscoverReturns

SpecDiscover == InitDiscover /\ [][NextDiscover]_vars

-----------------------------------------------------------------------------
(* Two calls in progress at once on one client *)

\* The application makes two calls without awaiting the first: a poll of the
\* global feed or of the source s1 in one slot, a poll of the source s2 in the
\* other. The service does not republish; any fetch may fail.
InitConcurrent ==
    \E g \in {1, 2} : InitWith({1, 2}, [k \in Keys |-> g], 1, FALSE, NoFile)

NextConcurrent ==
    \/ \E c \in DOMAIN calls, options \in ProtocolOptions : c = 1 /\ Poll(c, options)
    \/ \E c \in DOMAIN calls, options \in ProtocolOptions :
          c = 1 /\ PollSource(c, "s1", options)
    \/ \E c \in DOMAIN calls, options \in ProtocolOptions :
          c = 2 /\ PollSource(c, "s2", options)
    \/ PollSteps

SpecConcurrent == InitConcurrent /\ [][NextConcurrent]_vars

-----------------------------------------------------------------------------
(* The low-level calls beside polls on one client *)

\* The url argument of head() and fetchFeed(): none, empty, or a source's document.
FacadeHeadUrls == {undefined, "", SourceHeadUrl("s1")}
FacadeFeedUrls == {undefined, "", SourceLatestUrl("s1")}

\* The argument of discoverSources().
FacadeDeps == {<<NameAbMixed, NameC>>}

\* The feeds stand at any generation; the store is empty.
InitFacade ==
    \E g \in 1..Len(Generations) : InitWith({1}, [k \in Keys |-> g], 1, FALSE, NoFile)

NextFacade ==
    \/ \E c \in DOMAIN calls, options \in ProtocolOptions : Poll(c, options)
    \/ \E c \in DOMAIN calls, options \in ProtocolOptions : PollSource(c, "s1", options)
    \/ PollSteps
    \/ \E url \in FacadeHeadUrls : HeadCall(url)
    \/ \E url \in FacadeFeedUrls : FetchFeedCall(url)
    \/ SourcesCall
    \/ CheckHealthCall
    \/ FacadeArrives
    \/ FacadeFails
    \/ FacadeReturns
    \/ \E dependencies \in FacadeDeps : DiscoverSources(dependencies)
    \/ StacksArrive
    \/ StacksFail
    \/ DiscoverReturns

SpecFacade == InitFacade /\ [][NextFacade]_vars

-----------------------------------------------------------------------------
(* fetchJson against a service that answers, fails or stays silent *)

\* The URLs fetched and the statuses the service answers with.
FetchUrls == {GlobalHeadUrl, GlobalLatestUrl, SourcesUrl}
StatusCodes == {200, 299, 300, 404, 500}

InitFetch == InitWith({1}, [k \in Keys |-> 1], 1, FALSE, NoFile)

NextFetch ==
    \/ \E url \in FetchUrls : FetchJson(url)
    \/ \E code \in StatusCodes : ResponseArrives(code)
    \/ \E isJson \in BOOLEAN : BodyArrives(isJson)
    \/ NetworkError
    \/ TimerExpires
    \/ AbortRejects
    \/ FetchReturns

\* A timer that is set and not cleared expires, and an aborted request rejects.
FairFetch == WF_vars(TimerExpires) /\ WF_vars(AbortRejects)

SpecFetch == InitFetch /\ [][NextFetch]_vars /\ FairFetch

-----------------------------------------------------------------------------
(* The decoders on documents of every shape *)

InitDecode == InitWith({1}, [k \in Keys |-> 1], 1, FALSE, NoFile)

NextDecode ==
    \/ \E i \in 1..Len(RawItems), b \in 1..Len(BucketNames) :
          ParseFeedItem(RawItems[i], BucketNames[b])
    \/ \E c \in 1..Len(RawCursors), t \in 1..Len(RawTtls), n \in 1..Len(RawCounts) :
          ParseHead(RawHead(RawCursors[c], RawTtls[t], RawCounts[n]))
    \/ \E c \in 1..2, b1, b2, b3, b4 \in 1..Len(BucketChoices) :
          ParseFeed(RawFeed(RawCursors[c], BucketChoices[b1], BucketChoices[b2],
                            BucketChoices[b3], BucketChoices[b4]))
    \/ \E b \in 1..Len(OddDocs) : ParseFeed(ObjectOf([buckets |-> OddDocs[b]]))
    \/ \E i \in 1..Len(RawSources) : ParseSourceInfo(RawSources[i])
    \/ \E i \in 1..Len(RawHealths) : ParseHealthCheck(RawHealths[i])
    \/ \E i \in 1..Len(OddDocs) : ParseHead(OddDocs[i])
    \/ \E i \in 1..Len(OddDocs) : ParseFeed(OddDocs[i])
    \/ \E i \in 1..Len(OddDocs) : ParseSourceInfo(OddDocs[i])
    \/ \E i \in 1..Len(OddDocs) : ParseHealthCheck(OddDocs[i])
    \/ Discard

SpecDecode == InitDecode /\ [][NextDecode]_vars

-----------------------------------------------------------------------------
(* Properties of the poll engine under Spec *)

\* The call c leaves its wait for the head with the head document it was served.
HeadStep(c) == calls[c].pc = "head" /\ calls'[c].pc # "head" /\ calls'[c].status # "rejected"

\* The call c leaves its wait for the full feed with the feed it was served.
FeedStep(c) == calls[c].pc = "latest" /\ calls'[c].fetched

\* The call c ended on the fast path: resolved with no items after the head request alone.
FastPath(f) ==
    /\ f.pc = "done" /\ f.status = "resolved" /\ f.items = <<>>
    /\ ~f.fetched /\ f.reqs = <<f.params.headUrl>>

\* C1: when the head arrives and the cursor stored under the call's key exists and
\* equals the cursor of the head document served, the call resolves with an empty
\* sequence, sends no request to the latest URL and leaves the cursor store (and
\* the cursor file) as it was.
C1_FastPath ==
    [][\A c \in DOMAIN calls :
          (/\ HeadStep(c)
           /\ calls[c].params.cursorKey \in DOMAIN cursors
           /\ cursors[calls[c].params.cursorKey] =
                  parseHead(server[calls[c].params.headUrl]).cursor)
          => (/\ FastPath(calls'[c])
              /\ ~includes(calls'[c].reqs, calls[c].params.latestUrl)
              /\ cursors' = cursors /\ file' = file)]_vars

\* C1 witness: a call of each kind has ended on the fast path with a stored cursor
\* equal to the head's.
C1_Witness ==
    \E c \in DOMAIN calls :
        /\ FastPath(calls[c])
        /\ calls[c].op = "pollSource"
        /\ calls[c].storedCursor = "c2" /\ calls[c].head.cursor = "c2"
        /\ get(cursors, calls[c].params.cursorKey) = "c2"

\* C2 as stated: after a call fetched the full feed, the cursor stored under its
\* key equals the fetched feed's cursor.
C2_Original ==
    [][\A c \in DOMAIN calls :
          FeedStep(c) =>
              get(cursors', calls[c].params.cursorKey) =
                  parseFeed(server[calls[c].params.latestUrl]).cursor]_vars

\* C2 amended: after a call fetched a full feed that carries a non-empty cursor, the
\* cursor stored under its key equals the feed's cursor, whatever the head's
\* cursor was; a feed with an empty or missing cursor leaves the store as it was.
C2_StoredCursor ==
    [][\A c \in DOMAIN calls :
          FeedStep(c) =>
              LET feedCursor == parseFeed(server[calls[c].params.latestUrl]).cursor
              IN  IF feedCursor # ""
                  THEN /\ get(cursors', calls[c].params.cursorKey) = feedCursor
                       /\ \A k \in DOMAIN cursors' \ {calls[c].params.cursorKey} :
                             k \in DOMAIN cursors /\ cursors'[k] = cursors[k]
                  ELSE cursors' = cursors]_vars

\* C2 witness: a call fetched a feed whose cursor differs from the head's, and the
\* feed's cursor is the one stored now.
C2_Witness ==
    \E c \in DOMAIN calls :
        /\ calls[c].pc = "done" /\ calls[c].fetched
        /\ calls[c].head.cursor = "c2" /\ calls[c].feed.cursor = "c1"
        /\ get(cursors, calls[c].params.cursorKey) = "c1"

\* The call c was made after a poll of its key fetched the full feed, and the
\* server's documents for that key (and the stored cursor) were not touched between
\* that fetch and the arrival of c's head.
Follows(f) == f.after /\ f.pc \notin {"idle", "head"} /\ f.status # "rejected"

\* C3 as stated: a poll that follows a full fetch of the same key, the server's
\* head and feed documents unchanged, returns no items and does not request the
\* full feed.
C3_Original ==
    \A c \in DOMAIN calls : Follows(calls[c]) => FastPath(calls[c])

\* C3 amended: the same, provided the feed that was fetched carries a non-empty
\* cursor equal to the head's cursor.
C3_OnlyNewItems ==
    [][\A c \in DOMAIN calls :
          (/\ HeadStep(c)
           /\ calls[c].after
           /\ parseFeed(server[calls[c].params.latestUrl]).cursor # ""
           /\ parseFeed(server[calls[c].params.latestUrl]).cursor =
                  parseHead(server[calls[c].params.headUrl]).cursor)
          => FastPath(calls'[c])]_vars

\* C3 witness: a poll that follows a full fetch has ended on the fast path.
C3_Witness ==
    \E c \in DOMAIN calls : Follows(calls[c]) /\ FastPath(calls[c])

-----------------------------------------------------------------------------
(* Properties of the filters under SpecFilter *)

\* A sequence restricted to the elements that satisfy Keep, their order kept.
RECURSIVE Restrict(_, _)
Restrict(seq, keep) ==
    IF seq = <<>> THEN <<>>
    ELSE IF Head(seq) \in keep THEN <<Head(seq)>> \o Restrict(Tail(seq), keep)
    ELSE Restrict(Tail(seq), keep)

\* sub can be had from seq by leaving elements out.
RECURSIVE IsSubSeq(_, _)
IsSubSeq(sub, seq) ==
    IF sub = <<>> THEN TRUE
    ELSE IF seq = <<>> THEN FALSE
    ELSE IF Head(sub) = Head(seq) THEN IsSubSeq(Tail(sub), Tail(seq))
    ELSE IsSubSeq(sub, Tail(seq))

\* The call resolved after fetching the full feed.
Fetched(f) == f.pc = "done" /\ f.status = "resolved" /\ f.fetched

\* The items of the fetched feed whose bucket is one of the given names.
InBuckets(f, names) == Restrict(f.feed.items, {i \in Range(f.feed.items) : i.bucket \in names})

\* C5: with a bucket set requested, every returned item's bucket is in the set, the
\* returned sequence is a subsequence of the feed's combined sequence restricted to
\* those buckets, and it is exactly that restriction when neither a source filter nor
\* a tag filter is in effect; a call that did not fetch returns nothing.
C5_BucketClosure ==
    \A c \in DOMAIN calls :
        LET f == calls[c]
            requested == Range(f.options.buckets.v)
        IN  (f.pc = "done" /\ f.status = "resolved" /\ f.options.buckets.some) =>
              /\ \A n \in 1..Len(f.items) : f.items[n].bucket \in requested
              /\ IsSubSeq(f.items, InBuckets(f, requested))
              /\ (f.fetched /\ ~HasLength(f.params.sources) /\ ~HasLength(f.params.tags))
                    => f.items = InBuckets(f, requested)
              /\ ~f.fetched => f.items = <<>>

\* C5 witness: a call asked for flagged, new and updated, in that order, of a feed
\* with all four buckets and got the items of the three in the feed's order.
C5_Witness ==
    \E c \in DOMAIN calls :
        /\ Fetched(calls[c])
        /\ calls[c].options.buckets = Some(<<"flagged", "new", "updated">>)
        /\ Len(calls[c].feed.items) = 5
        /\ [n \in 1..Len(calls[c].items) |-> calls[c].items[n].id] = <<"a", "b", "c", "e">>

\* C6: a call made without a bucket option uses {new, updated, flagged}: with no
\* other filter in effect it returns the feed's new, updated and flagged items.
C6_DefaultBuckets ==
    \A c \in DOMAIN calls :
        LET f == calls[c]
        IN  (/\ Fetched(f) /\ ~f.options.buckets.some
             /\ ~HasLength(f.params.sources) /\ ~HasLength(f.params.tags))
            => f.items = InBuckets(f, {"new", "updated", "flagged"})

\* C7: with a source filter supplied to poll, the empty list included, every
\* returned item's source is in the filter.
C7_SourceClosure ==
    \A c \in DOMAIN calls :
        LET f == calls[c]
        IN  (f.pc = "done" /\ f.status = "resolved" /\ f.op = "poll" /\ f.options.sources.some)
            => \A n \in 1..Len(f.items) : f.items[n].source \in Range(f.options.sources.v)

\* The tags the service's source list gave to a source when the call took its tag
\* map, none for a source that is not in the map.
LookedUp(f, source) ==
    IF f.tagMap.some /\ source \in DOMAIN f.tagMap.v THEN Range(f.tagMap.v[source]) ELSE {}

\* C8: with a tag filter supplied, every returned item's source has a tag in common
\* with the filter according to the tag lookup, so no item of a source absent from
\* the lookup is returned.
C8_TagCorrectness ==
    \A c \in DOMAIN calls :
        LET f == calls[c]
        IN  (f.pc = "done" /\ f.status = "resolved" /\ f.options.tags.some)
            => \A n \in 1..Len(f.items) :
                  LookedUp(f, f.items[n].source) \cap Range(f.options.tags.v) # {}

\* C9: when the fetch of the source list fails, the tag-filtered poll resolves,
\* with no items, and the tag map it used and cached is the empty one.
C9_SourcesFailure ==
    \A c \in DOMAIN calls :
        LET f == calls[c]
        IN  (f.pc = "done" /\ includes(f.failed, SourcesUrl))
            => /\ f.status = "resolved" /\ f.items = <<>>
               /\ f.tagMap = Some(EmptyTagMap)
               /\ sourceTagsCache = Some(EmptyTagMap)

\* C9 witness: the source list could not be fetched for a call whose items, filtered
\* by bucket and source, were not empty, and the call resolved with none.
C9_Witness ==
    \E c \in DOMAIN calls :
        LET f == calls[c]
        IN  /\ Fetched(f) /\ includes(f.failed, SourcesUrl)
            /\ f.items = <<>>
            /\ FilterBySource(FilterByBucket(f.feed.items, f.params.buckets),
                              f.params.sources) # <<>>

-----------------------------------------------------------------------------
(* Feed-key isolation under SpecKeys *)

\* The feed key of a call, from the operation called and its argument.
FeedKey(f) == IF f.op = "poll" THEN "global" ELSE "source:" \o f.sourceId

\* Reads: whether the call ends on the fast path when its head arrives is decided by
\* the cursor stored under its own key. Writes: a cursor appears or changes under a
\* key only in the feed step of a call of that key.
KeyIsolation ==
    /\ \A c \in DOMAIN calls :
          HeadStep(c) =>
              (FastPath(calls'[c]) <=>
                  CursorUnchanged(get(cursors, FeedKey(calls[c])),
                                  parseHead(server[calls[c].params.headUrl])))
    /\ \A k \in Keys :
          (get(cursors', k) # get(cursors, k) /\ get(cursors', k) # undefined) =>
              \E c \in DOMAIN calls : FeedStep(c) /\ FeedKey(calls[c]) = k

\* A tag-filtered call of one key ends with the tag map that a call of another key
\* cached, and returns what it would return had it fetched the source list itself:
\* the feed's items filtered with the list the service serves now, or with the empty
\* map had that fetch failed.
OutcomeAsAlone ==
    \A c \in DOMAIN calls :
        (/\ FeedStep(c) /\ calls'[c].pc = "done" /\ HasLength(calls[c].params.tags)
         /\ cacheBy # FeedKey(calls[c]))
        => LET f == calls[c]
               items == FilterBySource(
                            FilterByBucket(parseFeed(server[f.params.latestUrl]).items,
                                           f.params.buckets), f.params.sources)
           IN  calls'[c].items \in
                   {FilterByTags(items, f.params.tags.v, TagMapOf(ParseSources(server[SourcesUrl]))),
                    FilterByTags(items, f.params.tags.v, EmptyTagMap)}

\* C10 as stated: poll reads and writes only the cursor under "global", pollSource(id)
\* only the one under "source:<id>", and polls of another key change neither a
\* key's cursor nor the outcome of a poll of that key.
C10_Original == [][KeyIsolation /\ OutcomeAsAlone]_vars

\* C10 amended: poll reads and writes only the cursor under "global" and
\* pollSource(id) only the one under "source:<id>"; polls of another key never change
\* a key's cursor. (The outcome of a tag-filtered poll does depend on earlier polls
\* of other keys, through the client-wide source-tags cache.)
C10_KeyIsolation == [][KeyIsolation]_vars

\* C10 witness: polls of the global feed and of both sources each left their own
\* cursor in the store, and a later per-source poll ended on the fast path.
C10_Witness ==
    /\ cursors = [k \in Keys |-> IF k = "global" THEN "c1"
                                 ELSE IF k = "source:s1" THEN "c2" ELSE "c1"]
    /\ \E c \in DOMAIN calls :
          calls[c].op = "pollSource" /\ calls[c].sourceId = "s1" /\ FastPath(calls[c])

-----------------------------------------------------------------------------
(* Item delivery through watch() under SpecWatch *)

ItemIds == {"a", "b", "c", "d", "e", "f"}

\* C4: every item that a poll made by watch() fetched and kept after its filters
\* is eventually passed to the callback, unless the caller stops the watch; with
\* at most MaxThrown callback failures and MaxRestarts process restarts, and a
\* network that answers in the end.
C4_AtLeastOnce ==
    \A i \in ItemIds : [](i \in owed => <>(i \in delivered \/ watcher.pc = "stopped"))

\* The step is one of the running process, not a restart.
SameProcess == watcher'.restarts = watcher.restarts

\* watch() resumes from a poll that rejected.
PollFailed ==
    /\ watcher.pc = "polling" /\ watcher'.pc # "polling"
    /\ calls[WatchCall].pc = "done" /\ calls[WatchCall].status = "rejected"

\* watch() resumes from a callback that threw.
CallbackFailed == watcher.pc = "callback" /\ watcher'.thrown = watcher.thrown + 1

\* C11: a poll failure or a callback failure in a cycle, the signal not aborted,
\* takes watch() to the sleep of that cycle; watch() never rejects; and from the
\* sleep another poll begins, unless the caller aborts meanwhile.
C11_BadCycle ==
    /\ [][(SameProcess /\ ~watcher.aborted /\ (PollFailed \/ CallbackFailed))
             => (watcher'.pc = "sleep" /\ watcher'.woken = "no")]_vars
    /\ [](watcher.pc # "rejected")
    /\ (watcher.pc = "sleep") ~> (watcher.pc = "polling" \/ watcher.aborted)

\* C11 witness: after a callback failure the same process polls again.
C11_Witness ==
    /\ watcher.thrown = 1 /\ watcher.restarts = 0
    /\ watcher.pc = "polling" /\ ~watcher.aborted

\* C12: watch() is stopped only with its signal aborted; once stopped it does
\* nothing more; and when the loop condition finds the signal aborted no poll (no
\* head request) is started.
C12_StopOnlyByAbort ==
    /\ [](watcher.pc = "stopped" => watcher.aborted)
    /\ [][(watcher.pc = "stopped" /\ SameProcess)
             => (watcher' = watcher /\ calls' = calls)]_vars
    /\ [][(/\ watcher.aborted /\ SameProcess
           /\ watcher.pc \in {"sleep", "interval"} /\ watcher'.pc # watcher.pc)
             => (watcher'.pc = "stopped" /\ calls'[WatchCall].pc = "idle")]_vars

\* C12 witness: watch() returned after the caller aborted the signal.
C12_Witness ==
    watcher.pc = "stopped" /\ watcher.aborted /\ watcher.restarts = 0

\* C13: an abort during the sleep resolves the sleep at once, without the timer;
\* after an abort at any time no new poll is started, the sleep of the cycle in
\* flight is the last one, and watch() returns.
C13_PromptCancellation ==
    /\ [][(watcher.pc = "sleep" /\ ~watcher.aborted /\ watcher'.aborted)
             => watcher'.woken # "no"]_vars
    /\ [][(watcher.aborted /\ SameProcess)
             => /\ ~(watcher.pc # "polling" /\ watcher'.pc = "polling")
                /\ (watcher.pc = "sleep" /\ watcher'.pc # "sleep")
                      => watcher'.pc = "stopped"]_vars
    /\ watcher.aborted ~> (watcher.pc = "stopped" \/ ~watcher.aborted)

\* C13 witness: watch() returned from a sleep that the abort, not the timer, ended.
C13_Witness ==
    watcher.pc = "stopped" /\ watcher.woken = "abort"

\* C14 as stated: a cycle whose poll returned items ends with the callback
\* called once per item, in order.
C14_Original ==
    [][(/\ SameProcess
        /\ watcher.pc = "callback" /\ watcher'.pc \in {"sleep", "stopped"})
          => watcher'.invoked = watcher'.items]_vars

\* C14 amended: the callback is called with the items in the order of the returned
\* sequence, one call at a time, the next only when the one before has returned;
\* when every call returns, each item is passed once; when a call fails, the items
\* after it are not passed in that cycle.
C14_InOrder ==
    /\ [](watcher.pc = "callback" =>
             /\ Len(watcher.invoked) >= 1
             /\ watcher.invoked \o watcher.queue = watcher.items)
    /\ [][(SameProcess /\ Len(watcher'.invoked) > Len(watcher.invoked))
             => /\ watcher'.invoked = Append(watcher.invoked, watcher'.items[Len(watcher.invoked) + 1])
                /\ \/ watcher.pc = "polling" /\ watcher.invoked = <<>>
                   \/ watcher.pc = "callback" /\ watcher'.thrown = watcher.thrown]_vars
    /\ [][(/\ SameProcess /\ ~CallbackFailed
           /\ watcher.pc = "callback" /\ watcher'.pc \in {"sleep", "stopped"})
             => watcher'.invoked = watcher'.items]_vars
    /\ [][(SameProcess /\ CallbackFailed)
             => (watcher'.invoked = watcher.invoked /\ watcher'.pc \in {"sleep", "stopped"})]_vars

\* C14 witness: a cycle of three items ended with the three passed in order.
C14_Witness ==
    /\ watcher.pc = "sleep" /\ watcher.thrown = 0
    /\ Len(watcher.items) = 3 /\ watcher.invoked = watcher.items

\* watch() is called.
WatchStarts == watcher.pc = "off" /\ watcher'.pc # "off"

\* watch() leaves its interval determination.
IntervalSet == SameProcess /\ watcher.pc = "interval" /\ watcher'.pc # "interval"

-----------------------------------------------------------------------------
(* The durable cursor store across restarts, under SpecWatch *)

-----------------------------------------------------------------------------
(* The cursor store under SpecStore *)

\* C17: no call of the store throws: constructing the durable store on a file that
\* cannot be read or parsed gives an empty store, and set and clear whose write
\* fails still change the in-memory mapping, so get returns the value last set.
C17_FailuresSwallowed ==
    /\ [](~storeResult.threw)
    /\ [][(Reopen /\ durable /\ file.kind \in {"corrupt", "unreadable"})
             => cursors' = EmptyStore]_vars
    /\ [][\A key \in SetKeys, cursor \in StoreCursors :
             StoreSet(key, cursor)
                => /\ get(cursors', key) = cursor
                   /\ \A k \in SetKeys \ {key} : get(cursors', k) = get(cursors, k)]_vars
    /\ [][\A key \in SetKeys :
             (StoreClear(key) /\ durable /\ file' # stringify(cursors'))
                => get(cursors', key) = undefined]_vars

\* C17 witness: the file is unparseable and stays so, a set() could not write it,
\* and get returns the cursor that was set.
C17_Witness ==
    /\ durable /\ file = CorruptFile
    /\ storeResult = [op |-> "set", key |-> GlobalKey, threw |-> FALSE]
    /\ get(cursors, GlobalKey) = "c2"

\* The store without the given key.
Without(store, key) == [k \in DOMAIN store \ {key} |-> store[k]]

\* C19: clear(key) removes exactly that key and clear() everything;
\* resetCursors(sourceId) removes only "source:<sourceId>" and resetCursors()
\* everything; and a poll whose key has no cursor fetches the full feed whatever
\* the head's cursor is.
C19_Reset ==
    [][/\ \A key \in ClearKeys \ {undefined} :
             StoreClear(key) => cursors' = Without(cursors, key)
       /\ StoreClear(undefined) => cursors' = EmptyStore
       /\ \A id \in SpecIds \cup {""} :
             resetCursors(id) => cursors' = Without(cursors, SourceKey(id))
       /\ resetCursors(undefined) => cursors' = EmptyStore
       /\ \A c \in DOMAIN calls :
             (HeadStep(c) /\ get(cursors, calls[c].params.cursorKey) = undefined)
                => calls'[c].pc = "latest"]_vars

-----------------------------------------------------------------------------
(* Transport failures of one-shot calls, under Spec *)

\* The fetch the call c waits for fails.
FetchFailed(c) == calls[c].pc \in {"head", "latest"} /\ calls'[c].failed # <<>>

\* C18: when the head fetch or the full-feed fetch of a poll fails, the call
\* rejects and the cursor store and the cursor file are as they were; after a
\* failed head fetch no full-feed request was sent; after a failed full-feed fetch
\* the stored cursor still differs from the head's, so the next poll of an
\* unchanged head fetches the feed again.
C18_TransportFailure ==
    [][\A c \in DOMAIN calls :
          FetchFailed(c) =>
              /\ calls'[c].pc = "done" /\ calls'[c].status = "rejected"
              /\ calls'[c].items = <<>>
              /\ cursors' = cursors /\ file' = file
              /\ calls[c].pc = "head" => ~includes(calls'[c].reqs, calls[c].params.latestUrl)
              /\ calls[c].pc = "latest" =>
                    ~CursorUnchanged(get(cursors', calls[c].params.cursorKey), calls[c].head)]_vars

\* C18 witness: the full-feed fetch of a pollSource failed while a cursor was
\* stored under its key, and the cursor is still the stored one.
C18_Witness ==
    \E c \in DOMAIN calls :
        /\ calls[c].pc = "done" /\ calls[c].status = "rejected"
        /\ calls[c].op = "pollSource"
        /\ calls[c].failed = <<calls[c].params.latestUrl>>
        /\ calls[c].storedCursor = "c1"
        /\ get(cursors, calls[c].params.cursorKey) = "c1"

-----------------------------------------------------------------------------
(* discoverSources under SpecDiscover *)

\* The source ids the stacks document maps a lowercase name to.
MappedIds(data, lowerName) == Range(SourcesOfEntry(EntryOf(DepsObj(data), lowerName)))

\* The lowercase forms of the names of a list.
LowerNames(dependencies) == {toLowerCase(dependencies[i]) : i \in 1..Len(dependencies)}

\* C20: a resolved discoverSources returns no id twice, its ids are exactly the
\* union of the ids the stacks document maps the lowercased names to (names
\* without an entry add nothing), and any list with the same names in another
\* order or letter case gives the same set.
C20_Discover ==
    (discovery.pc = "done" /\ discovery.status = "resolved") =>
        LET data == server[StacksUrl]
            result == discovery.result
        IN  /\ Cardinality(Range(result)) = Len(result)
            /\ Range(result) =
                  UNION {MappedIds(data, n) : n \in LowerNames(discovery.dependencies)}
            /\ \A other \in DepLists :
                  LowerNames(other) = LowerNames(discovery.dependencies)
                     => Range(Collect(DepsObj(data), other, <<>>)) = Range(result)

\* C20 witness: two known names in capitals and an unknown one, against the
\* modern document, give s2, s3 and s1 once each.
C20_Witness ==
    /\ discovery.pc = "done" /\ discovery.status = "resolved"
    /\ discovery.dependencies = <<NameBUpper, NameCUpper, NameAbMixed>>
    /\ server[StacksUrl] = StacksDocs[1]
    /\ discovery.result = <<"s2", "s3", "s1">>

-----------------------------------------------------------------------------
(* The decoders under SpecDecode *)

\* The records the decoders return for {}.
DefaultItem(bucket) ==
    [source |-> JStr(""), id |-> JStr(""), headline |-> JStr(""), url |-> JStr(""),
     excerpt |-> JStr(""), publishedAt |-> JNull, updatedAt |-> JNull, bucket |-> bucket,
     signals |-> EmptyObject, suggestedAction |-> JNull, riskScore |-> JNull,
     provenance |-> EmptyObject, raw |-> EmptyObject]

DefaultHead ==
    [cursor |-> JStr(""), changed |-> JBool(FALSE), generatedAt |-> JStr(""),
     ttlSec |-> JNum(60), latestUrl |-> JStr(""), digestUrl |-> JNull,
     counts |-> [new |-> JNum(0), updated |-> JNum(0), removed |-> JNum(0),
                 flagged |-> JNum(0)],
     sourcesChecked |-> JNum(0), sourcesOk |-> JNum(0), allClear |-> JBool(FALSE),
     allClearConfidence |-> JNull, freshness |-> JNull, raw |-> EmptyObject]

DefaultFeed ==
    [cursor |-> JStr(""), prevCursor |-> JStr(""), sourceId |-> JStr(""),
     generatedAt |-> JStr(""), items |-> <<>>, new |-> <<>>, updated |-> <<>>,
     removed |-> <<>>, flagged |-> <<>>, narrative |-> JStr(""), raw |-> EmptyObject]

DefaultSourceInfo ==
    [sourceId |-> JStr(""), name |-> JStr(""), tags |-> JArr(<<>>),
     description |-> JStr(""), homepage |-> JStr(""), enabled |-> JBool(TRUE),
     status |-> JStr("ok"), headUrl |-> JStr(""), latestUrl |-> JStr("")]

DefaultHealthCheck ==
    [ok |-> JBool(FALSE), service |-> JStr(""), time |-> JStr(""),
     sourcesChecked |-> JNum(0), sourcesOk |-> JNum(0), engineVersion |-> JStr("")]

DefaultsOf(op, bucket) ==
    CASE op = "parseFeedItem"    -> DefaultItem(bucket)
      [] op = "parseHead"        -> DefaultHead
      [] op = "parseFeed"        -> DefaultFeed
      [] op = "parseSourceInfo"  -> DefaultSourceInfo
      [] op = "parseHealthCheck" -> DefaultHealthCheck

\* A decoder returned a record.
Decoded(op) == decoded.op = op /\ ~decoded.result.threw

\* C21: no decoder raises, whatever the document, and {} decodes to the record
\* of the documented defaults.
C21_DecodersTotal ==
    decoded.op # "none" =>
        /\ ~decoded.result.threw
        /\ IsEmptyObject(decoded.input) =>
              decoded.result.value = DefaultsOf(decoded.op, decoded.bucket)

\* The elements a feed document holds under a bucket name.
RawBucket(data, bucket) == Or(Get(Or(Get(data, "buckets"), EmptyObject), bucket), JArr(<<>>)).v

\* C22: the items of a decoded feed are its new, updated, removed and flagged
\* lists in that order; each list holds the decoded elements of the document's
\* bucket of that name in document order, each marked with that name.
C22_ItemsConcatenation ==
    Decoded("parseFeed") =>
        LET feed == decoded.result.value
        IN  /\ feed.items = feed.new \o feed.updated \o feed.removed \o feed.flagged
            /\ \A b \in 1..Len(BucketNames) :
                  LET list == feed[BucketNames[b]]
                      raw == RawBucket(decoded.input, BucketNames[b])
                  IN  /\ Len(list) = Len(raw)
                      /\ \A i \in 1..Len(list) :
                            list[i].raw = raw[i] /\ list[i].bucket = BucketNames[b]

\* C22 witness: a feed with one or two elements in each bucket decoded to six
\* items, new first and flagged last.
C22_Witness ==
    /\ Decoded("parseFeed")
    /\ map(decoded.result.value.items, LAMBDA i : <<i.bucket, i.id.v>>) =
          << <<"new", "a">>, <<"updated", "b">>, <<"updated", "c">>, <<"removed", "a">>,
             <<"flagged", "b">>, <<"flagged", "c">> >>

\* Two values are the same, or both are absent (undefined or null).
SameOrBothAbsent(a, b) == (Nullish(a) /\ Nullish(b)) \/ (a.t = b.t /\ a = b)

\* The decoded items in hand: the one parseFeedItem returned, or those of a feed.
DecodedItems ==
    IF Decoded("parseFeedItem") THEN <<decoded.result.value>>
    ELSE IF Decoded("parseFeed") THEN decoded.result.value.items
    ELSE <<>>

\* C23 as stated: the suggestedAction of every decoded item equals the
\* suggested_action of its signals, or both are absent.
C23_Original ==
    \A n \in 1..Len(DecodedItems) :
        SameOrBothAbsent(DecodedItems[n].suggestedAction,
                         Get(DecodedItems[n].signals, "suggested_action"))

\* C23 amended: the suggestedAction of a decoded item equals the
\* suggested_action of its signals when that is absent or truthy (both absent
\* included); a suggested_action that is present but falsy, such as "", gives
\* the suggestedAction null. No other field of the item enters.
C23_Projection ==
    \A n \in 1..Len(DecodedItems) :
        LET item == DecodedItems[n]
            action == Get(item.signals, "suggested_action")
        IN  IF Nullish(action) \/ Truthy(action)
            THEN SameOrBothAbsent(item.suggestedAction, action)
            ELSE item.suggestedAction = JNull

\* C23 witness: an item with a severity and the action PATCH_SOON was decoded,
\* and one with a severity and no action.
C23_Witness ==
    /\ Decoded("parseFeed")
    /\ \E n, m \in 1..Len(DecodedItems) :
          /\ Truthy(Get(DecodedItems[n].signals, "severity"))
          /\ DecodedItems[n].suggestedAction = JStr("PATCH_SOON")
          /\ Truthy(Get(DecodedItems[m].signals, "severity"))
          /\ DecodedItems[m].suggestedAction = JNull

-----------------------------------------------------------------------------
(* The documented protocol and the requests of one poll, under Spec *)

\* The position of the first request of a call to the given URL, 0 when the call
\* never requested it.
FirstRequest(f, url) ==
    IF includes(f.reqs, url)
    THEN CHOOSE i \in 1..Len(f.reqs) :
            f.reqs[i] = url /\ \A j \in 1..(i - 1) : f.reqs[j] # url
    ELSE 0

\* C24: a poll of the global feed requests the head first, and the latest
\* document only after it requested the digest.
C24_ThreeLayers ==
    \A c \in DOMAIN calls :
        LET f == calls[c]
        IN  (f.op = "poll" /\ includes(f.reqs, f.params.latestUrl)) =>
                /\ FirstRequest(f, f.params.headUrl) = 1
                /\ FirstRequest(f, GlobalDigestUrl) > 0
                /\ FirstRequest(f, GlobalDigestUrl) < FirstRequest(f, f.params.latestUrl)


\* How often the call requested the URL.
Requests(f, url) == Cardinality({i \in 1..Len(f.reqs) : f.reqs[i] = url})

-----------------------------------------------------------------------------
(* Overlapping calls under SpecConcurrent *)

\* The call awaits a response.
InFlight(f) == f.pc \in {"head", "latest", "sources"}

\* The call c sends the sources request of getSourceTags in this step.
SourcesRequested(c) == calls[c].pc # "sources" /\ calls'[c].pc = "sources"

\* C26: the sources document is requested only while the cache is empty and no
\* other call has requested it, and a cache that was assigned never changes.
C26_CacheOnce ==
    /\ [][\A c \in DOMAIN calls :
            SourcesRequested(c) =>
                /\ ~sourceTagsCache.some
                /\ \A d \in DOMAIN calls \ {c} : ~includes(calls[d].reqs, SourcesUrl)]_vars
    /\ [][sourceTagsCache.some => sourceTagsCache' = sourceTagsCache]_vars

\* The items the call in flight returns when every response it still awaits
\* arrives and nothing else happens, given the cursor store and the tag cache.
ProspectOf(f, store, cache) ==
    LET kept == FilterBySource(
                    FilterByBucket(parseFeed(server[f.params.latestUrl]).items,
                                   f.params.buckets), f.params.sources)
        served == TagMapOf(ParseSources(server[SourcesUrl]))
        full == IF HasLength(f.params.tags)
                THEN FilterByTags(kept, f.params.tags.v,
                                  IF cache.some THEN cache.v ELSE served)
                ELSE kept
    IN  CASE f.pc = "head" ->
                IF CursorUnchanged(get(store, f.params.cursorKey),
                                   parseHead(server[f.params.headUrl]))
                THEN <<>> ELSE full
          [] f.pc = "latest" -> full
          [] f.pc = "sources" -> FilterByTags(f.items, f.params.tags.v, served)
          [] OTHER -> f.items

\* A step of the call d while the call c is in flight.
StepBeside(c, d) == c # d /\ InFlight(calls[c]) /\ calls'[d] # calls[d]

\* No call waits for another: the response a call awaits can arrive whatever
\* the other call is doing.
NeverBlocked ==
    \A c \in DOMAIN calls :
        /\ calls[c].pc = "head" => ENABLED HeadArrives(c)
        /\ calls[c].pc = "latest" => ENABLED FeedArrives(c)
        /\ calls[c].pc = "sources" => ENABLED SourcesArrive(c)

\* A step of another call leaves the call's own frame and the cursor under its
\* key alone, and the feed step of a call stores the cursor as it would alone.
CursorsAsSequential ==
    /\ \A c, d \in DOMAIN calls :
          StepBeside(c, d) =>
              /\ calls'[c] = calls[c]
              /\ get(cursors', calls[c].params.cursorKey) =
                    get(cursors, calls[c].params.cursorKey)
    /\ \A c \in DOMAIN calls :
          FeedStep(c) =>
              cursors' = SaveCursor(cursors, calls[c].params.cursorKey,
                                    parseFeed(server[calls[c].params.latestUrl]))

\* C27 as stated: overlapping polls of different feed keys never wait for each
\* other, a step of one changes neither the items the other is going to return
\* nor the cursor under the other's key.
C27_Original ==
    /\ []NeverBlocked
    /\ [][CursorsAsSequential]_vars
    /\ [][\A c, d \in DOMAIN calls :
            StepBeside(c, d) =>
                ProspectOf(calls[c], cursors', sourceTagsCache') =
                    ProspectOf(calls[c], cursors, sourceTagsCache)]_vars

\* C27 amended: overlapping polls of different feed keys never wait for each
\* other and a step of one never changes the cursor under the other's key; a
\* step of one changes the items the other is going to return only when the
\* other filters by tags and the step assigns the source-tags cache.
C27_Independent ==
    /\ []NeverBlocked
    /\ [][CursorsAsSequential]_vars
    /\ [][\A c, d \in DOMAIN calls :
            StepBeside(c, d) =>
                \/ ProspectOf(calls[c], cursors', sourceTagsCache') =
                      ProspectOf(calls[c], cursors, sourceTagsCache)
                \/ /\ HasLength(calls[c].params.tags)
                   /\ sourceTagsCache' # sourceTagsCache]_vars

\* C27 witness: a poll of the global feed and a poll of the source s2 were in
\* progress together, each fetched its feed and resolved with its items, and
\* each left its cursor under its own key.
C27_Witness ==
    /\ calls[1].op = "poll" /\ calls[1].pc = "done" /\ calls[1].status = "resolved"
    /\ calls[2].op = "pollSource" /\ calls[2].pc = "done" /\ calls[2].status = "resolved"
    /\ calls[1].fetched /\ calls[2].fetched
    /\ Len(calls[1].items) > 0 /\ Len(calls[2].items) > 0
    /\ get(cursors, "global") = "c1" /\ get(cursors, "source:s2") = "c1"
    /\ get(cursors, "source:s1") = undefined

-----------------------------------------------------------------------------
(* Cancellation in the middle of a cycle, under SpecWatch *)

\* watch() is inside a cycle: it awaits its poll or a callback.
MidCycle == watcher.pc \in {"polling", "callback"}

\* The signal is aborted in this step.
Aborts == ~watcher.aborted /\ watcher'.aborted

\* watch() leaves the cycle in this step, for the sleep or for good.
CycleEnds == SameProcess /\ MidCycle /\ watcher'.pc \in {"sleep", "stopped"}

\* An abort in the middle of a cycle changes the signal and nothing else, and the
\* responses the poll awaits can still arrive.
FetchNotAborted ==
    /\ [][(Aborts /\ MidCycle) =>
             /\ calls' = calls
             /\ watcher' = [watcher EXCEPT !.aborted = TRUE]]_vars
    /\ [](watcher.aborted /\ watcher.pc = "polling" =>
             /\ calls[WatchCall].pc = "head" => ENABLED HeadArrives(WatchCall)
             /\ calls[WatchCall].pc = "latest" => ENABLED FeedArrives(WatchCall)
             /\ calls[WatchCall].pc = "sources" => ENABLED SourcesArrive(WatchCall))

\* C28 as stated: an abort in the middle of a cycle aborts no fetch and no
\* callback, and when the cycle ends every item its poll returned was passed to
\* the callback.
C28_Original ==
    /\ FetchNotAborted
    /\ [][(CycleEnds /\ watcher.aborted) => watcher'.invoked = watcher'.items]_vars

\* C28 amended: an abort in the middle of a cycle aborts no fetch and no
\* callback; when the cycle ends every item its poll returned was passed to the
\* callback, unless an invocation failed: then the loop stops at once and the
\* items after the failing one are not passed.
C28_NoMidCycleCancel ==
    /\ FetchNotAborted
    /\ [][(CycleEnds /\ watcher.aborted) =>
             IF CallbackFailed
             THEN watcher'.pc = "stopped"
             ELSE watcher'.invoked = watcher'.items]_vars
    /\ [][(SameProcess /\ watcher.aborted /\ watcher.pc = "callback" /\ ~CallbackFailed
           /\ watcher.queue # <<>>)
             => (watcher'.pc = "callback"
                 /\ watcher'.invoked = Append(watcher.invoked, Head(watcher.queue)))]_vars

\* C28 witness: the signal was aborted in the middle of a cycle whose poll
\* returned several items; all of them were passed and watch() sleeps, the abort
\* not yet observed.
C28_Witness ==
    /\ watcher.aborted /\ watcher.pc = "sleep" /\ watcher.woken = "no"
    /\ Len(watcher.items) >= 2 /\ watcher.invoked = watcher.items

-----------------------------------------------------------------------------
(* fetchJson under SpecFetch *)

\* fetchJson awaits the response or its body.
Pending == request.pc \in {"fetching", "body"}

\* C29: every call of fetchJson settles; it sets one timer; when the timer
\* expires before the response and its body are complete the request is aborted
\* and the call rejects, as it does on a network error; a status outside 200-299
\* rejects the call; and once the call has settled its timer is not running, so
\* it never fires afterwards.
C29_FetchTerminates ==
    /\ Pending ~> request.pc = "done"
    /\ [](request.pc # "idle" => request.windows = 1)
    /\ [][(Pending /\ TimerExpires) => (request'.aborted /\ Pending')]_vars
    /\ [][(Pending /\ request.aborted /\ request' # request) =>
             (request'.pc = "done" /\ request'.status = "rejected")]_vars
    /\ [][(NetworkError \/ \E code \in StatusCodes : ResponseArrives(code) /\ ~Ok(code)) =>
             (request'.pc = "done" /\ request'.status = "rejected")]_vars
    /\ [](~Pending => request.timer # "armed" /\ ~ENABLED TimerExpires)

\* C29 witness: a call whose status was 200 timed out while its body was read,
\* and rejected.
C29_Witness ==
    /\ request.pc = "done" /\ request.status = "rejected" /\ request.error = "abort"
    /\ request.code = 200 /\ request.timer = "fired" /\ request.finished = 1

-----------------------------------------------------------------------------
(* What the store holds, under Spec *)

\* The cursors the service's feed documents carry.
FeedCursors == {Generations[g].latest.cursor : g \in 1..Len(Generations)} \ {undefined}

\* The URL of the full feed stored under a key.
LatestUrlOf(key) == (CHOOSE f \in Feeds : f.key = key).latestUrl

-----------------------------------------------------------------------------
(* The cursor and the filters, under SpecFilter *)

\* C31: whatever buckets, sources and tags a poll is called with, the step that
\* receives the full feed stores the feed document's cursor under the call's key
\* when it is not empty and changes nothing else in the store, and the rest of
\* the call (the tag lookup, the return) leaves the store alone; and a call whose
\* head carries the stored cursor returns no item and fetches no feed, however
\* wide its filters.
C31_CursorIgnoresFilters ==
    /\ [][\A c \in DOMAIN calls :
             FeedStep(c) =>
                LET f == calls[c]
                    feed == parseFeed(server[f.params.latestUrl])
                IN  \A k \in Keys :
                        get(cursors', k) =
                            IF k = f.params.cursorKey /\ feed.cursor # ""
                            THEN feed.cursor ELSE get(cursors, k)]_vars
    /\ [][\A c \in DOMAIN calls :
             (calls[c].fetched /\ calls'[c] # calls[c]) => cursors' = cursors]_vars
    /\ [](\A c \in DOMAIN calls :
             LET f == calls[c]
             IN  (/\ f.pc = "done" /\ f.status = "resolved"
                  /\ f.storedCursor \notin {undefined, ""}
                  /\ f.storedCursor = f.head.cursor) =>
                     (f.items = <<>> /\ ~f.fetched))

\* C31 witness: a poll whose source and tag filters excluded every item of a feed
\* with items has stored the feed's cursor.
C31_Witness ==
    \E c \in DOMAIN calls :
        LET f == calls[c]
        IN  /\ Fetched(f) /\ f.items = <<>> /\ f.feed.items # <<>>
            /\ HasLength(f.options.sources) /\ HasLength(f.options.tags)
            /\ f.feed.cursor # ""
            /\ get(cursors, f.params.cursorKey) = f.feed.cursor

-----------------------------------------------------------------------------
(* A failing callback, under SpecWatch *)

\* The items a poll of watch() returned and no callback was called with.
Dropped == owed \ delivered

\* C32: when the callback fails, the rest of the cycle's items is given up and
\* no callback is called until the next cycle; the cursor of the feed was stored
\* before the first callback ran; and a later cycle of the same process whose
\* head carries the stored cursor ends on the fast path and calls no callback.
C32_FailedCallbackDrops ==
    /\ [][CallbackFailed =>
             /\ watcher'.queue = <<>> /\ watcher'.invoked = watcher.invoked
             /\ delivered' = delivered
             /\ watcher'.pc \in {"sleep", "stopped"}]_vars
    /\ [][(SameProcess /\ watcher.pc \in {"sleep", "stopped"}) =>
             (delivered' = delivered /\ watcher'.pc # "callback")]_vars
    /\ [](watcher.pc = "callback" =>
             LET feed == parseFeed(server[GlobalLatestUrl])
             IN  feed.cursor # "" => get(cursors, GlobalKey) = feed.cursor)
    /\ [][(/\ SameProcess /\ watcher.pc = "polling" /\ HeadStep(WatchCall)
           /\ get(cursors, GlobalKey) \notin {undefined, ""}
           /\ get(cursors, GlobalKey) = parseHead(server[GlobalHeadUrl]).cursor) =>
             FastPath(calls'[WatchCall])]_vars
    /\ [][(/\ SameProcess /\ watcher.pc = "polling" /\ FastPath(calls[WatchCall])) =>
             (delivered' = delivered /\ watcher'.pc \in {"polling", "sleep"})]_vars

\* C32 witness: the callback failed with items still to come, and a later cycle
\* of the same process ended on the fast path and sleeps, the items still not
\* passed to any callback.
C32_Witness ==
    /\ watcher.thrown = 1 /\ watcher.restarts = 0
    /\ watcher.pc = "sleep" /\ watcher.items = <<>> /\ watcher.invoked = <<>>
    /\ Dropped # {}
    /\ get(cursors, GlobalKey) = parseHead(server[GlobalHeadUrl]).cursor

-----------------------------------------------------------------------------
(* An abort in the middle of a cycle, under SpecWatch *)

\* The cycle ends with a failure in this step: the poll rejected or the callback
\* threw.
CycleFails == SameProcess /\ (PollFailed \/ CallbackFailed)

\* watch() sleeps with the signal aborted and nothing to wake it but the timer.
DeafSleep == watcher.pc = "sleep" /\ watcher.aborted /\ watcher.woken = "no"

\* C33: with the signal aborted during the cycle, a cycle that ends with a
\* failure stops the loop at once, without a sleep and without reporting the
\* failure; a cycle that ends without failure goes to a sleep that no listener
\* cuts short: only the timer ends it, after which the loop stops, as it always
\* does in the end.
C33_AbortByOutcome ==
    /\ [][(CycleFails /\ watcher.aborted) =>
             (watcher'.pc = "stopped" /\ ~watcher'.reported)]_vars
    /\ [][(CycleFails /\ ~watcher.aborted) =>
             (watcher'.pc = "sleep" /\ watcher'.reported)]_vars
    /\ [][(CycleEnds /\ ~CycleFails /\ watcher.aborted) => DeafSleep']_vars
    /\ [][(SameProcess /\ DeafSleep /\ watcher' # watcher) =>
             watcher' = [watcher EXCEPT !.woken = "timer"]]_vars
    /\ [][(SameProcess /\ watcher.pc = "sleep" /\ watcher.aborted
           /\ watcher'.pc # "sleep") =>
             (watcher.woken # "no" /\ watcher'.pc = "stopped")]_vars
    /\ [](DeafSleep => ~ENABLED Wake)
    /\ DeafSleep ~> (watcher.pc = "stopped" \/ ~watcher.aborted)

\* C33 witness: the signal was aborted while the callbacks of a cycle ran, the
\* cycle ended without failure, and watch() sleeps the whole interval.
C33_Witness ==
    /\ DeafSleep /\ ~watcher.reported /\ watcher.thrown = 0
    /\ watcher.items # <<>> /\ watcher.invoked = watcher.items
    /\ watcher.interval = FallbackInterval

-----------------------------------------------------------------------------
(* The low-level calls under SpecFacade *)

\* A step of head(), fetchFeed(), sources(), checkHealth() or discoverSources().
FacadeStep == facade' # facade \/ discovery' # discovery

\* C34: no step of head, fetchFeed, sources, checkHealth and discoverSources,
\* whether the call succeeds or fails, changes the cursor store, the cursor file
\* or the source-tags cache, and what such a call returns is decoded from the
\* document served, whatever the store holds; the store changes only in the step
\* in which a poll receives its full feed, so that a poll whose key has no
\* cursor equal to the head's still requests the feed and resolves with that
\* feed's items.
C34_FacadeReadOnly ==
    /\ [][FacadeStep =>
             /\ cursors' = cursors /\ file' = file
             /\ sourceTagsCache' = sourceTagsCache
             /\ calls' = calls /\ fetchedSince' = fetchedSince]_vars
    /\ []((facade.pc = "done" /\ facade.status = "resolved") =>
             facade.result = FacadeResult(facade.op, server[facade.url]))
    /\ [][(cursors' # cursors \/ sourceTagsCache' # sourceTagsCache) =>
             \E c \in DOMAIN calls : calls'[c] # calls[c]]_vars
    /\ [][\A c \in DOMAIN calls :
             (/\ HeadStep(c)
              /\ ~CursorUnchanged(get(cursors, calls[c].params.cursorKey),
                                  parseHead(server[calls[c].params.headUrl]))) =>
                 calls'[c].pc = "latest"]_vars
    /\ [](\A c \in DOMAIN calls :
             Fetched(calls[c]) =>
                 /\ calls[c].feed = parseFeed(server[calls[c].params.latestUrl])
                 /\ ~HasLength(calls[c].options.tags) =>
                       calls[c].items = FilterByBucket(calls[c].feed.items, DefaultBuckets))

\* C34 witness: fetchFeed() has returned the global feed, and a poll that found
\* no cursor in the store fetched the same feed and returned its items.
C34_Witness ==
    /\ facade.op = "fetchFeed" /\ facade.pc = "done" /\ facade.status = "resolved"
    /\ facade.url = GlobalLatestUrl /\ facade.result.cursor # ""
    /\ Fetched(calls[1]) /\ calls[1].op = "poll"
    /\ calls[1].storedCursor = undefined
    /\ calls[1].feed = facade.result /\ calls[1].items # <<>>

====
